---- MODULE Spec2Model ----
(***************************************************************************)
(* A model of the bitcask storage engine: the append-only log of data      *)
(* files, the in-memory index, write batches, merge and the rebuild of the *)
(* index at open.                                                          *)
(*                                                                         *)
(* A file is a sequence of frames.  A frame is one encoded log record      *)
(* together with the number of its bytes that are in the file; a frame     *)
(* holding fewer bytes than the record's encoding is a torn write.  The    *)
(* CRC of a record is taken to detect every torn or misaligned frame.      *)
(***************************************************************************)
EXTENDS Integers, Sequences, FiniteSets, TLC

\* ---------------------------------------------------------------- bounds

\* API calls made in one behaviour
MaxCalls == 6
\* Options.data_file_size, in bytes: two small records fit in one file
DataFileSize == 20
\* WriteBatchOptions.max_batch_size
MaxBatchSize == 2
\* the calls the three threads start between an open and a close
MaxConcCalls == 4
\* the most bytes of a record that a stopped write leaves in the file
MaxTorn == 2
MaxIterCalls == 3
\* the calls of the thread whose commits can fail
MaxFailCalls == 5

\* the calls of the thread that notes its batch calls
MaxBatchCalls == 5

\* the largest id of a merged data file that a stopped promotion can name
MaxMerged == 2

\* the calls started by the threads that append at once
MaxAppendCalls == 3
MaxLockCalls == 3

\* user keys (non-empty byte strings) and values (possibly empty)
Keys == {<<97>>, <<98>>}
Values == {<<>>, <<1>>}

\* ------------------------------------------------------------- constants

NON_TRANSACTION_SEQ_NUMBER == 0
INITIAL_DATA_FILE_ID == 0
TX_FIN_KEY == <<116, 120, 110, 45, 102, 105, 110>>

EmptyMap == [x \in {} |-> 0]
\* a file that is not there, and a file holding the given frames
NoFile == [exists |-> FALSE, frames |-> <<>>]
File(frames) == [exists |-> TRUE, frames |-> frames]
\* the file-lock of a directory: whether the file is there, and whether some
\* open handle holds the exclusive lock on it
NoLock == [exists |-> FALSE, locked |-> FALSE]
\* a directory that is not there, and a directory without files
\* (sequence_number_file and bptree_index are the files sequence-number and
\* bptree-index, which only an engine with a BPlusTree index reads)
NoDir == [exists |-> FALSE, data |-> EmptyMap, hint |-> NoFile, merge_finished |-> NoFile,
          file_lock |-> NoLock, sequence_number_file |-> NoFile,
          bptree_index |-> [exists |-> FALSE, tree |-> EmptyMap]]
EmptyDir == [exists |-> TRUE, data |-> EmptyMap, hint |-> NoFile, merge_finished |-> NoFile,
             file_lock |-> NoLock, sequence_number_file |-> NoFile,
             bptree_index |-> [exists |-> FALSE, tree |-> EmptyMap]]
\* try_lock_exclusive on the file-lock of d, created when missing; and the
\* release of that lock by unlock or by the end of the handle
Locked(d) == [d EXCEPT !.file_lock = [exists |-> TRUE, locked |-> TRUE]]
Unlocked(d) == [d EXCEPT !.file_lock.locked = FALSE]

\* ------------------------------------------------- length-delimiter codec

RECURSIVE encode_length_delimiter(_)
encode_length_delimiter(n) ==
    IF n < 128 THEN <<n>>
    ELSE <<128 + (n % 128)>> \o encode_length_delimiter(n \div 128)

RECURSIVE decode_length_delimiter(_)
decode_length_delimiter(buf) ==
    IF Head(buf) < 128 THEN [value |-> Head(buf), rest |-> Tail(buf)]
    ELSE LET r == decode_length_delimiter(Tail(buf))
         IN [value |-> (Head(buf) - 128) + 128 * r.value, rest |-> r.rest]

length_delimiter_len(n) == Len(encode_length_delimiter(n))

\* ------------------------------------------------------------ log records

LogRecord(k, v, t) == [key |-> k, value |-> v, rec_type |-> t]

get_record_sequence_number_with_key(key, sequence_number) ==
    encode_length_delimiter(sequence_number) \o key

parse_record_sequence_number_with_key(key) ==
    LET d == decode_length_delimiter(key)
    IN [seq |-> d.value, key |-> d.rest]

encoded_length(rec) ==
    1 + length_delimiter_len(Len(rec.key)) + length_delimiter_len(Len(rec.value))
      + Len(rec.key) + Len(rec.value) + 4

LogRecordPos(f, o) == [file_id |-> f, offset |-> o]

LogRecordPos_encode(pos) ==
    encode_length_delimiter(pos.file_id) \o encode_length_delimiter(pos.offset)

decode_log_record_pos(buf) ==
    LET a == decode_length_delimiter(buf)
        b == decode_length_delimiter(a.rest)
    IN LogRecordPos(a.value, b.value)

\* ------------------------------------------------------------ data files

\* a completely written record
Frame(rec) == [rec |-> rec, len |-> encoded_length(rec)]

RECURSIVE FileSize(_)
FileSize(frames) ==
    IF frames = <<>> THEN 0 ELSE Head(frames).len + FileSize(Tail(frames))

\* the index of the frame that starts at byte `offset`, or 0
RECURSIVE FrameAt(_, _, _)
FrameAt(frames, offset, i) ==
    IF i > Len(frames) THEN 0
    ELSE IF offset = 0 THEN i
    ELSE IF offset < frames[i].len THEN 0
    ELSE FrameAt(frames, offset - frames[i].len, i + 1)

\* DataFile::read_log_record over the StandardFileIO backend: a read past the
\* end of the file leaves the zeroed buffer, so both lengths decode as 0.
read_log_record(frames, offset) ==
    LET i == FrameAt(frames, offset, 1)
        eof == [err |-> "ReadDataFileEof", record |-> LogRecord(<<>>, <<>>, "Normal"), size |-> 0]
        crc == [err |-> "InvalidLogRecordCrc", record |-> LogRecord(<<>>, <<>>, "Normal"), size |-> 0]
    IN IF offset >= FileSize(frames) THEN eof
       ELSE IF i = 0 THEN crc
       ELSE IF frames[i].len = encoded_length(frames[i].rec)
            THEN [err |-> "Ok", record |-> frames[i].rec, size |-> frames[i].len]
       ELSE IF frames[i].len = 1 /\ i = Len(frames) THEN eof
       ELSE crc

\* the longest header: the type byte and two length delimiters of a u32
max_log_record_header_size == 11

\* DataFile::read_log_record over the MmapIO backend: a read that ends past
\* the end of the mapping fails with ReadDataFileEof and copies nothing, the
\* read of the header buffer as the read of key, value and crc
read_log_record_mmap(frames, offset) ==
    LET i == FrameAt(frames, offset, 1)
        eof == [err |-> "ReadDataFileEof", record |-> LogRecord(<<>>, <<>>, "Normal"), size |-> 0]
        crc == [err |-> "InvalidLogRecordCrc", record |-> LogRecord(<<>>, <<>>, "Normal"), size |-> 0]
    IN IF offset + max_log_record_header_size > FileSize(frames) THEN eof
       ELSE IF i = 0 THEN crc
       ELSE IF frames[i].len = encoded_length(frames[i].rec)
            THEN [err |-> "Ok", record |-> frames[i].rec, size |-> frames[i].len]
       ELSE eof

\* ------------------------------------------------------------------ index

Indexer_put(idx, key, pos) ==
    [k \in DOMAIN idx \cup {key} |-> IF k = key THEN pos ELSE idx[k]]

Indexer_delete(idx, key) ==
    [k \in DOMAIN idx \ {key} |-> idx[k]]

\* ------------------------------------------------------------------ state

VARIABLES
    dir,              \* the data directory: the data files by id, hint-index, merge-finished
    merge_dir,        \* the directory <dir>-merge
    status,           \* "open", "closed", "crashed" or the error of the last open
    engine,           \* Engine.options.index_type and, with a BPlusTree index,
                      \* Engine.is_first_load and Engine.sequence_number_file_exists
    active_file,      \* Engine.active_file: [file_id, write_offset]
    older_files,      \* Engine.older_files: the ids of the frozen files
    index,            \* Engine.index: key -> LogRecordPos
    sequence_number,  \* Engine.sequence_number
    pending_writes,   \* WriteBatch.pending_writes: key -> [value, rec_type]
    pc,               \* where each thread is in the call it is making
    local,            \* the local variables of each thread's call
    kv,               \* the key -> value map the completed writes describe
    last,             \* the last completed API call and its result
    calls             \* number of API calls made

vars == <<dir, merge_dir, status, engine, active_file, older_files, index,
          sequence_number, pending_writes, pc, local, kv, last, calls>>


\* --------------------------------------------------------- decimal strings

\* usize::to_string().into_bytes()
RECURSIVE to_string(_)
to_string(n) ==
    IF n < 10 THEN <<48 + n>> ELSE to_string(n \div 10) \o <<48 + (n % 10)>>

\* str::parse::<u32>() of a string of decimal digits
RECURSIVE parse_u32(_)
parse_u32(s) ==
    IF Len(s) = 0 THEN 0
    ELSE 10 * parse_u32(SubSeq(s, 1, Len(s) - 1)) + (s[Len(s)] - 48)

\* ------------------------------------------------------------------ engine

append_log_record_stale_offset(data, af, older, rec) ==
    LET len == encoded_length(rec)
        rotate == af.write_offset + len > DataFileSize
        fid == IF rotate THEN af.file_id + 1 ELSE af.file_id
        off == IF rotate THEN 0 ELSE af.write_offset
        data1 == IF fid \in DOMAIN data THEN data ELSE data @@ (fid :> <<>>)
    IN [data |-> [data1 EXCEPT ![fid] = Append(@, Frame(rec))],
        active_file |-> [file_id |-> fid, write_offset |-> off + len],
        older_files |-> IF rotate THEN older \cup {af.file_id} ELSE older,
        pos |-> LogRecordPos(fid, af.write_offset)]

\* an append that returns the offset at which its record ends
append_log_record_end_offset(data, af, older, rec) ==
    LET len == encoded_length(rec)
        rotate == af.write_offset + len > DataFileSize
        fid == IF rotate THEN af.file_id + 1 ELSE af.file_id
        off == IF rotate THEN 0 ELSE af.write_offset
        data1 == IF fid \in DOMAIN data THEN data ELSE data @@ (fid :> <<>>)
    IN [data |-> [data1 EXCEPT ![fid] = Append(@, Frame(rec))],
        active_file |-> [file_id |-> fid, write_offset |-> off + len],
        older_files |-> IF rotate THEN older \cup {af.file_id} ELSE older,
        pos |-> LogRecordPos(fid, off + len)]

\* an append that never leaves the active file
append_log_record_never_rotates(data, af, older, rec) ==
    [data |-> [data EXCEPT ![af.file_id] = Append(@, Frame(rec))],
     active_file |-> [file_id |-> af.file_id,
                      write_offset |-> af.write_offset + encoded_length(rec)],
     older_files |-> older,
     pos |-> LogRecordPos(af.file_id, af.write_offset)]

\* an append that moves to the next file and forgets the file it leaves
append_log_record_drops_older(data, af, older, rec) ==
    LET len == encoded_length(rec)
        rotate == af.write_offset + len > DataFileSize
        fid == IF rotate THEN af.file_id + 1 ELSE af.file_id
        off == IF rotate THEN 0 ELSE af.write_offset
        data1 == IF fid \in DOMAIN data THEN data ELSE data @@ (fid :> <<>>)
    IN [data |-> [data1 EXCEPT ![fid] = Append(@, Frame(rec))],
        active_file |-> [file_id |-> fid, write_offset |-> off + len],
        older_files |-> older,
        pos |-> LogRecordPos(fid, off)]

\* Engine::append_log_record: rotate when the record does not fit, write at the
\* end of the active file, return the position the write offset gave.
append_log_record(data, af, older, rec) ==
    LET len == encoded_length(rec)
        rotate == af.write_offset + len > DataFileSize
        fid == IF rotate THEN af.file_id + 1 ELSE af.file_id
        off == IF rotate THEN 0 ELSE af.write_offset
        data1 == IF fid \in DOMAIN data THEN data ELSE data @@ (fid :> <<>>)
    IN [data |-> [data1 EXCEPT ![fid] = Append(@, Frame(rec))],
        active_file |-> [file_id |-> fid, write_offset |-> off + len],
        older_files |-> IF rotate THEN older \cup {af.file_id} ELSE older,
        pos |-> LogRecordPos(fid, off)]

\* the places at which Engine::append_log_record returns an error: the sync of
\* the file a rotation leaves, DataFile::write, and the sync that follows the
\* write when sync_write is set or bytes_per_sync is reached
FailStages == {"rotate_sync", "write", "sync"}

\* Engine::append_log_record returning an error at the given stage
append_log_record_fails(data, af, older, rec, stage) ==
    LET a == append_log_record(data, af, older, rec)
    IN CASE stage = "rotate_sync" ->
              [data |-> data, active_file |-> af, older_files |-> older,
               err |-> "SyncFileError"]
         [] stage = "write" ->
              [data |-> [f \in DOMAIN a.data |->
                           IF f \in DOMAIN data THEN data[f] ELSE <<>>],
               active_file |-> [file_id |-> a.active_file.file_id,
                                write_offset |-> IF a.active_file.file_id = af.file_id
                                                 THEN af.write_offset ELSE 0],
               older_files |-> a.older_files,
               err |-> "WriteToDataFileError"]
         [] stage = "sync" ->
              [data |-> a.data, active_file |-> a.active_file,
               older_files |-> a.older_files, err |-> "SyncFileError"]

\* Engine::append_log_record stopped inside DataFile::write: only the first n
\* bytes of the record reach the file
append_log_record_torn(data, af, older, rec, n) ==
    [append_log_record(data, af, older, rec) EXCEPT
        !.data = [append_log_record(data, af, older, rec).data EXCEPT
                     ![append_log_record(data, af, older, rec).pos.file_id] =
                         Append(SubSeq(@, 1, Len(@) - 1), [rec |-> rec, len |-> n])]]

\* Engine::get_value_by_position
get_value_by_position(data, af, older, pos) ==
    IF pos.file_id # af.file_id /\ pos.file_id \notin older
    THEN [err |-> "DataFileNotFound", value |-> <<>>]
    ELSE LET r == read_log_record(data[pos.file_id], pos.offset)
         IN IF r.err # "Ok" THEN [err |-> r.err, value |-> <<>>]
            ELSE IF r.record.rec_type = "Deleted"
                 THEN [err |-> "KeyNotFound", value |-> <<>>]
            ELSE [err |-> "Ok", value |-> r.record.value]

\* Bytes::is_empty on a key
is_empty_never(key) == FALSE

is_empty(key) == key = <<>>

\* Engine::get on the given engine state
Engine_get(data, af, older, idx, key) ==
    IF is_empty(key) THEN [err |-> "KeyIsEmpty", value |-> <<>>]
    ELSE IF key \notin DOMAIN idx THEN [err |-> "KeyNotFound", value |-> <<>>]
    ELSE get_value_by_position(data, af, older, idx[key])

\* Engine::get on the current state
Get(key) == Engine_get(dir.data, active_file, older_files, index, key)

\* Engine::update_index
update_index_keeps_deleted(idx, key, rec_type, pos) ==
    CASE rec_type = "Normal" -> [index |-> Indexer_put(idx, key, pos), ok |-> TRUE]
      [] rec_type = "Deleted" -> [index |-> idx, ok |-> key \in DOMAIN idx]
      [] OTHER -> [index |-> idx, ok |-> TRUE]

update_index(idx, key, rec_type, pos) ==
    CASE rec_type = "Normal" -> [index |-> Indexer_put(idx, key, pos), ok |-> TRUE]
      [] rec_type = "Deleted" -> [index |-> Indexer_delete(idx, key), ok |-> key \in DOMAIN idx]
      [] OTHER -> [index |-> idx, ok |-> TRUE]

\* the loop over one transaction's buffered records, stopped by the first error
RECURSIVE apply_transaction_records(_, _)
apply_transaction_records(idx, recs) ==
    IF recs = <<>> THEN [index |-> idx, ok |-> TRUE]
    ELSE LET u == update_index(idx, Head(recs).key, Head(recs).rec_type, Head(recs).position)
         IN IF u.ok THEN apply_transaction_records(u.index, Tail(recs)) ELSE u

Max(a, b) == IF a > b THEN a ELSE b

\* One pass of the inner loop of Engine::load_index_from_data_files: the record
\* r read at `offset` of file fid, its key parsed as p; st = [index, txn, seq,
\* err, offset].  The result is the state to go on with, or st with err set.
scan_record(fid, offset, st, r, p) ==
    IF p.seq = NON_TRANSACTION_SEQ_NUMBER
    THEN [st EXCEPT
            !.index = update_index(st.index, p.key, r.record.rec_type,
                                   LogRecordPos(fid, offset)).index,
            !.err = IF update_index(st.index, p.key, r.record.rec_type,
                                    LogRecordPos(fid, offset)).ok
                    THEN "Ok" ELSE "FailedToUpdateIndex",
            !.seq = Max(@, p.seq)]
    ELSE IF r.record.rec_type = "TxnFinished"
    THEN IF p.seq \notin DOMAIN st.txn
         THEN [st EXCEPT !.err = "Panic"]
         ELSE [st EXCEPT
                 !.index = apply_transaction_records(st.index, st.txn[p.seq]).index,
                 !.err = IF apply_transaction_records(st.index, st.txn[p.seq]).ok
                         THEN "Ok" ELSE "FailedToUpdateIndex",
                 !.txn = [s \in DOMAIN st.txn \ {p.seq} |-> st.txn[s]],
                 !.seq = Max(@, p.seq)]
    ELSE [st EXCEPT
            !.txn = [s \in DOMAIN st.txn \cup {p.seq} |->
                       IF s = p.seq
                       THEN Append(IF p.seq \in DOMAIN st.txn THEN st.txn[p.seq] ELSE <<>>,
                                   [key |-> p.key, rec_type |-> r.record.rec_type,
                                    position |-> LogRecordPos(fid, offset)])
                       ELSE st.txn[s]],
            !.seq = Max(@, p.seq)]

\* the inner loop of Engine::load_index_from_data_files over one file, from `offset`
RECURSIVE scan_data_file(_, _, _, _)
scan_read(frames, fid, offset, st, r) ==
    IF r.err = "ReadDataFileEof" THEN [st EXCEPT !.offset = offset]
    ELSE IF r.err # "Ok" THEN [st EXCEPT !.err = r.err]
    ELSE scan_data_file(frames, fid, offset + r.size,
             scan_record(fid, offset, st, r,
                         parse_record_sequence_number_with_key(r.record.key)))

scan_data_file(frames, fid, offset, st) ==
    IF st.err # "Ok" THEN st
    ELSE scan_read(frames, fid, offset, st, read_log_record(frames, offset))

\* the outer loop of Engine::load_index_from_data_files over file_ids
RECURSIVE scan_data_files(_, _, _, _, _)
scan_data_files(data, file_ids, has_merge, unmerged_file_id, st) ==
    IF file_ids = <<>> \/ st.err # "Ok" THEN st
    ELSE LET fid == Head(file_ids)
         IN IF has_merge /\ fid < unmerged_file_id
            THEN scan_data_files(data, Tail(file_ids), has_merge, unmerged_file_id,
                                 [st EXCEPT !.offset = 0])
            ELSE scan_data_files(data, Tail(file_ids), has_merge, unmerged_file_id,
                                 scan_data_file(data[fid], fid, 0, st))

\* Engine::load_index_from_data_files
load_index_from_data_files(d, file_ids, idx) ==
    LET st0 == [index |-> idx, txn |-> EmptyMap, seq |-> NON_TRANSACTION_SEQ_NUMBER,
                err |-> "Ok", offset |-> 0]
        has_merge == d.merge_finished.exists
        fin == IF has_merge THEN read_log_record(d.merge_finished.frames, 0)
               ELSE [err |-> "Ok", record |-> LogRecord(<<>>, <<48>>, "Normal"), size |-> 0]
    IN IF file_ids = <<>> THEN st0
       ELSE IF fin.err # "Ok" THEN [st0 EXCEPT !.err = fin.err]
       ELSE scan_data_files(d.data, file_ids, has_merge, parse_u32(fin.record.value), st0)

\* Engine::load_index_from_hint_file, from `offset`
RECURSIVE load_index_from_hint_file(_, _, _)
load_index_from_hint_file(hint, offset, idx) ==
    IF ~hint.exists THEN [index |-> idx, err |-> "Ok"]
    ELSE LET r == read_log_record(hint.frames, offset)
         IN IF r.err = "ReadDataFileEof" THEN [index |-> idx, err |-> "Ok"]
            ELSE IF r.err # "Ok" THEN [index |-> idx, err |-> r.err]
            ELSE load_index_from_hint_file(hint, offset + r.size,
                     Indexer_put(idx, r.record.key, decode_log_record_pos(r.record.value)))

\* load_merge_files: drop an unfinished merge directory; promote a finished one
load_merge_files(d, m) ==
    IF ~m.exists THEN [dir |-> d, merge_dir |-> NoDir, err |-> "Ok"]
    ELSE IF ~m.merge_finished.exists THEN [dir |-> d, merge_dir |-> NoDir, err |-> "Ok"]
    ELSE IF read_log_record(m.merge_finished.frames, 0).err # "Ok"
    THEN [dir |-> d, merge_dir |-> m, err |-> read_log_record(m.merge_finished.frames, 0).err]
    ELSE LET unmerge_file_id ==
                 parse_u32(read_log_record(m.merge_finished.frames, 0).record.value)
             kept == {f \in DOMAIN d.data : f >= unmerge_file_id}
         IN [dir |-> [d EXCEPT
                 !.data = [f \in kept \cup DOMAIN m.data |->
                             IF f \in DOMAIN m.data THEN m.data[f] ELSE d.data[f]],
                 !.hint = IF m.hint.exists THEN m.hint ELSE d.hint,
                 !.file_lock = IF m.file_lock.exists THEN m.file_lock ELSE d.file_lock,
                 !.sequence_number_file = IF m.sequence_number_file.exists
                                          THEN m.sequence_number_file ELSE @,
                 !.bptree_index = IF m.bptree_index.exists THEN m.bptree_index ELSE @],
             merge_dir |-> NoDir, err |-> "Ok"]

\* load_data_files: the ids of the data files, ascending
RECURSIVE load_data_files(_)
load_data_files(ids) ==
    IF ids = {} THEN <<>>
    ELSE LET lo == CHOOSE f \in ids : \A g \in ids : f <= g
         IN <<lo>> \o load_data_files(ids \ {lo})

\* the directory after Engine::open: an open that fails drops its lock handle
opened_dir(d, ok) == IF ok THEN d ELSE Unlocked(d)

\* Engine::open with a scan-rebuilt index: the engine made of the directory d
\* (after load_merge_files), its data file ids, the index h loaded from the
\* hint file and the result st of the scan of the data files
Engine_new(d, m, file_ids, h, st) ==
    [status |-> IF h.err # "Ok" THEN h.err ELSE IF st.err # "Ok" THEN st.err ELSE "open",
     dir |-> opened_dir(IF file_ids = <<>> THEN [d EXCEPT !.data = (INITIAL_DATA_FILE_ID :> <<>>)]
                        ELSE d,
                        h.err = "Ok" /\ st.err = "Ok"),
     merge_dir |-> m,
     active_file |-> [file_id |-> IF file_ids = <<>> THEN INITIAL_DATA_FILE_ID
                                  ELSE file_ids[Len(file_ids)],
                      write_offset |-> IF h.err = "Ok" /\ st.err = "Ok" THEN st.offset ELSE 0],
     older_files |-> {file_ids[i] : i \in 1..(Len(file_ids) - 1)},
     index |-> IF h.err = "Ok" /\ st.err = "Ok" THEN st.index ELSE EmptyMap,
     sequence_number |-> IF h.err = "Ok" /\ st.err = "Ok" /\ st.seq > NON_TRANSACTION_SEQ_NUMBER
                         THEN st.seq + 1 ELSE 1]

Engine_load(d, m, file_ids, h) ==
    Engine_new(d, m, file_ids, h, load_index_from_data_files(d, file_ids, h.index))

Engine_files(d, m, file_ids) ==
    Engine_load(d, m, file_ids, load_index_from_hint_file(d.hint, 0, EmptyMap))

Engine_dirs(lm) ==
    Engine_files(lm.dir, lm.merge_dir, load_data_files(DOMAIN lm.dir.data))

Engine_open(d0, m0) ==
    IF d0.file_lock.locked
    THEN [status |-> "DatabaseIsUsing", dir |-> d0, merge_dir |-> m0,
          active_file |-> [file_id |-> INITIAL_DATA_FILE_ID, write_offset |-> 0],
          older_files |-> {}, index |-> EmptyMap, sequence_number |-> 1]
    ELSE IF load_merge_files(Locked(d0), m0).err # "Ok"
    THEN [status |-> load_merge_files(Locked(d0), m0).err,
          dir |-> opened_dir(Locked(d0), FALSE), merge_dir |-> m0,
          active_file |-> [file_id |-> INITIAL_DATA_FILE_ID, write_offset |-> 0],
          older_files |-> {}, index |-> EmptyMap, sequence_number |-> 1]
    ELSE Engine_dirs(load_merge_files(Locked(d0), m0))

\* ------------------------------------------------------------ write batch

\* the orders in which a HashMap may hand out the keys of S
Orders(S) ==
    {o \in [1..Cardinality(S) -> S] : \A i, j \in 1..Cardinality(S) : i # j => o[i] # o[j]}

\* WriteBatch::put
WriteBatch_put(pend, key, value) ==
    Indexer_put(pend, key, [value |-> value, rec_type |-> "Normal"])

\* a delete that leaves the staged entry of a key missing from the index
WriteBatch_delete_keeps_staged(pend, idx, key) ==
    IF key \notin DOMAIN idx THEN pend
    ELSE Indexer_put(pend, key, [value |-> <<>>, rec_type |-> "Deleted"])

\* WriteBatch::delete
WriteBatch_delete(pend, idx, key) ==
    IF key \notin DOMAIN idx THEN Indexer_delete(pend, key)
    ELSE Indexer_put(pend, key, [value |-> <<>>, rec_type |-> "Deleted"])

\* the record WriteBatch::commit writes for a staged key
commit_record(pend, key, seq) ==
    LogRecord(get_record_sequence_number_with_key(key, seq), pend[key].value, pend[key].rec_type)

\* the record that ends a transaction
finished_record(seq) ==
    LogRecord(get_record_sequence_number_with_key(TX_FIN_KEY, seq), <<>>, "TxnFinished")

\* the append loop of WriteBatch::commit over the keys of `order`
RECURSIVE commit_append_records(_, _, _, _, _, _)
commit_append_records(data, af, older, order, pend, seq) ==
    IF order = <<>>
    THEN [data |-> data, active_file |-> af, older_files |-> older, positions |-> EmptyMap]
    ELSE LET a == append_log_record(data, af, older, commit_record(pend, Head(order), seq))
             rest == commit_append_records(a.data, a.active_file, a.older_files,
                                           Tail(order), pend, seq)
         IN [rest EXCEPT !.positions = Indexer_put(@, Head(order), a.pos)]

\* one iteration of the index loop of WriteBatch::commit
commit_apply_one_puts_only(idx, pend, positions, key) ==
    IF pend[key].rec_type = "Normal" THEN Indexer_put(idx, key, positions[key])
    ELSE idx

commit_apply_one(idx, pend, positions, key) ==
    IF pend[key].rec_type = "Normal" THEN Indexer_put(idx, key, positions[key])
    ELSE Indexer_delete(idx, key)

\* the index loop of WriteBatch::commit over the keys of `order`
RECURSIVE commit_apply(_, _, _, _)
commit_apply(idx, pend, positions, order) ==
    IF order = <<>> THEN idx
    ELSE commit_apply(commit_apply_one(idx, pend, positions, Head(order)),
                      pend, positions, Tail(order))

\* the key -> value map after the staged writes of a batch
ApplyBatch(map, pend) ==
    [k \in (DOMAIN map \cup {x \in DOMAIN pend : pend[x].rec_type = "Normal"})
             \ {x \in DOMAIN pend : pend[x].rec_type = "Deleted"} |->
        IF k \in DOMAIN pend THEN pend[k].value ELSE map[k]]

\* ------------------------------------------------------------------ merge

MERGE_FINISHED_KEY == <<109, 101, 114, 103, 101, 46, 102, 105, 110, 105, 115, 104, 101, 100>>

\* Engine::ratate_merge_files
ratate_merge_files(data, af, older) ==
    LET new_id == af.file_id + 1
    IN [data |-> IF new_id \in DOMAIN data THEN data ELSE data @@ (new_id :> <<>>),
        active_file |-> [file_id |-> new_id, write_offset |-> 0],
        older_files |-> older \cup {af.file_id},
        merge_files |-> load_data_files(older \cup {af.file_id})]

\* the state of a running merge: the candidate files left, the offset in the
\* first of them, and the side engine with its directory
merge_start(merge_files) ==
    LET e == Engine_open(EmptyDir, NoDir)
    IN [cands |-> merge_files, offset |-> 0, err |-> "Ok",
        data |-> e.dir.data, hint |-> <<>>,
        af |-> e.active_file, older |-> e.older_files]

\* one iteration of the record loop of Engine::merge
merge_record_copies_deleted(src, idx, ms) ==
    LET fid == Head(ms.cands)
        r == read_log_record(src[fid], ms.offset)
    IN IF r.err = "ReadDataFileEof" THEN [ms EXCEPT !.cands = Tail(@), !.offset = 0]
       ELSE IF r.err # "Ok" THEN [ms EXCEPT !.err = r.err]
       ELSE
         LET real_key == parse_record_sequence_number_with_key(r.record.key).key
             live == r.record.rec_type = "Normal"
             rec == [r.record EXCEPT !.key =
                        get_record_sequence_number_with_key(real_key, NON_TRANSACTION_SEQ_NUMBER)]
             a == append_log_record(ms.data, ms.af, ms.older, rec)
             hint_record == LogRecord(real_key, LogRecordPos_encode(a.pos), "Normal")
         IN IF live
            THEN [ms EXCEPT !.data = a.data, !.af = a.active_file, !.older = a.older_files,
                            !.hint = Append(@, Frame(hint_record)),
                            !.offset = @ + r.size]
            ELSE [ms EXCEPT !.offset = @ + r.size]

\* a record loop that copies every Normal record of a key that is in the index
merge_record_copies_superseded(src, idx, ms) ==
    LET fid == Head(ms.cands)
        r == read_log_record(src[fid], ms.offset)
    IN IF r.err = "ReadDataFileEof" THEN [ms EXCEPT !.cands = Tail(@), !.offset = 0]
       ELSE IF r.err # "Ok" THEN [ms EXCEPT !.err = r.err]
       ELSE
         LET real_key == parse_record_sequence_number_with_key(r.record.key).key
             live == real_key \in DOMAIN idx /\ r.record.rec_type = "Normal"
             rec == [r.record EXCEPT !.key =
                        get_record_sequence_number_with_key(real_key, NON_TRANSACTION_SEQ_NUMBER)]
             a == append_log_record(ms.data, ms.af, ms.older, rec)
             hint_record == LogRecord(real_key, LogRecordPos_encode(a.pos), "Normal")
         IN IF live
            THEN [ms EXCEPT !.data = a.data, !.af = a.active_file, !.older = a.older_files,
                            !.hint = Append(@, Frame(hint_record)),
                            !.offset = @ + r.size]
            ELSE [ms EXCEPT !.offset = @ + r.size]

merge_record(src, idx, ms) ==
    LET fid == Head(ms.cands)
        r == read_log_record(src[fid], ms.offset)
    IN IF r.err = "ReadDataFileEof" THEN [ms EXCEPT !.cands = Tail(@), !.offset = 0]
       ELSE IF r.err # "Ok" THEN [ms EXCEPT !.err = r.err]
       ELSE
         LET real_key == parse_record_sequence_number_with_key(r.record.key).key
             live == /\ real_key \in DOMAIN idx
                     /\ idx[real_key].file_id = fid
                     /\ idx[real_key].offset = ms.offset
             rec == [r.record EXCEPT !.key =
                        get_record_sequence_number_with_key(real_key, NON_TRANSACTION_SEQ_NUMBER)]
             a == append_log_record(ms.data, ms.af, ms.older, rec)
             hint_record == LogRecord(real_key, LogRecordPos_encode(a.pos), "Normal")
         IN IF live
            THEN [ms EXCEPT !.data = a.data, !.af = a.active_file, !.older = a.older_files,
                            !.hint = Append(@, Frame(hint_record)),
                            !.offset = @ + r.size]
            ELSE [ms EXCEPT !.offset = @ + r.size]

\* the loops of Engine::merge with no other thread running
RECURSIVE merge_loop(_, _, _)
merge_loop(src, idx, ms) ==
    IF ms.cands = <<>> \/ ms.err # "Ok" THEN ms
    ELSE merge_loop(src, idx, merge_record(src, idx, ms))

\* a merge-finished file that names the id after the first merged file
merge_finished_file_first(merge_files) ==
    LET non_merge_file_id == merge_files[1] + 1
    IN File(<<Frame(LogRecord(MERGE_FINISHED_KEY, to_string(non_merge_file_id), "Normal"))>>)

\* the merge-finished file Engine::merge writes last
merge_finished_file(merge_files) ==
    LET non_merge_file_id == merge_files[Len(merge_files)] + 1
    IN File(<<Frame(LogRecord(MERGE_FINISHED_KEY, to_string(non_merge_file_id), "Normal"))>>)

SEQUENCE_NUMBER_KEY == <<115, 101, 113, 117, 101, 110, 99, 101, 46, 110, 117, 109, 98, 101, 114>>

\* the sequence-number file Engine::close writes
sequence_number_record(seq) ==
    File(<<Frame(LogRecord(SEQUENCE_NUMBER_KEY, to_string(seq), "Normal"))>>)

\* the merge directory a merge in state ms has written. The side engine of an
\* engine with a BPlusTree index has that index type too: it creates its own
\* bptree-index file, into which the merge puts nothing, starts with the
\* sequence number 0 of a directory without sequence-number file, and writes
\* that number when it is dropped at the return of the merge.
merge_dir_of(ms, finished) ==
    [exists |-> TRUE, data |-> ms.data, hint |-> File(ms.hint), merge_finished |-> finished,
     file_lock |-> [exists |-> TRUE, locked |-> TRUE],
     sequence_number_file |-> IF engine.index_type = "BPlusTree"
                              THEN sequence_number_record(0) ELSE NoFile,
     bptree_index |-> [exists |-> engine.index_type = "BPlusTree", tree |-> EmptyMap]]

\* ----------------------------------------------------------------- actions

Threads == {"W", "M", "R"}
NoLocal == [op |-> "none"]
Idle == \A t \in Threads : pc[t] = "idle"

Init ==
    LET e == Engine_open(EmptyDir, NoDir)
    IN /\ dir = e.dir
       /\ merge_dir = e.merge_dir
       /\ status = e.status
       /\ engine = [index_type |-> "BTree"]
       /\ active_file = e.active_file
       /\ older_files = e.older_files
       /\ index = e.index
       /\ sequence_number = e.sequence_number
       /\ pending_writes = EmptyMap
       /\ pc = [t \in Threads |-> "idle"]
       /\ local = [t \in Threads |-> NoLocal]
       /\ kv = EmptyMap
       /\ last = [op |-> "open", key |-> <<>>, res |-> "Ok"]
       /\ calls = 0

Called(op, key, res) ==
    /\ last' = [op |-> op, key |-> key, res |-> res]
    /\ calls' = calls + 1

CanCall == status = "open" /\ calls < MaxCalls /\ Idle

\* Engine::put
Put(k, v) ==
    /\ CanCall
    /\ IF is_empty(k)
       THEN /\ Called("put", k, "KeyIsEmpty")
            /\ UNCHANGED <<dir, active_file, older_files, index, kv>>
       ELSE LET rec == LogRecord(get_record_sequence_number_with_key(k, NON_TRANSACTION_SEQ_NUMBER),
                                 v, "Normal")
                a == append_log_record(dir.data, active_file, older_files, rec)
            IN /\ dir' = [dir EXCEPT !.data = a.data]
               /\ active_file' = a.active_file
               /\ older_files' = a.older_files
               /\ index' = Indexer_put(index, k, a.pos)
               /\ kv' = Indexer_put(kv, k, v)
               /\ Called("put", k, "Ok")
    /\ UNCHANGED <<merge_dir, status, engine, sequence_number, pending_writes, pc, local>>

\* Engine::delete
Delete(k) ==
    /\ CanCall
    /\ IF is_empty(k)
       THEN /\ Called("delete", k, "KeyIsEmpty")
            /\ UNCHANGED <<dir, active_file, older_files, index, kv>>
       ELSE IF k \notin DOMAIN index
       THEN /\ Called("delete", k, "KeyNotFound")
            /\ UNCHANGED <<dir, active_file, older_files, index, kv>>
       ELSE LET rec == LogRecord(get_record_sequence_number_with_key(k, NON_TRANSACTION_SEQ_NUMBER),
                                 <<>>, "Deleted")
                a == append_log_record(dir.data, active_file, older_files, rec)
            IN /\ dir' = [dir EXCEPT !.data = a.data]
               /\ active_file' = a.active_file
               /\ older_files' = a.older_files
               /\ index' = Indexer_delete(index, k)
               /\ kv' = Indexer_delete(kv, k)
               /\ Called("delete", k, "Ok")
    /\ UNCHANGED <<merge_dir, status, engine, sequence_number, pending_writes, pc, local>>

\* WriteBatch::put
BatchPut(k, v) ==
    /\ CanCall
    /\ pending_writes' = IF is_empty(k) THEN pending_writes
                         ELSE WriteBatch_put(pending_writes, k, v)
    /\ Called("batch_put", k, IF is_empty(k) THEN "KeyIsEmpty" ELSE "Ok")
    /\ UNCHANGED <<dir, merge_dir, status, engine, active_file, older_files, index,
                   sequence_number, pc, local, kv>>

\* WriteBatch::delete
BatchDelete(k) ==
    /\ CanCall
    /\ pending_writes' = IF is_empty(k) THEN pending_writes
                         ELSE WriteBatch_delete(pending_writes, index, k)
    /\ Called("batch_delete", k, IF is_empty(k) THEN "KeyIsEmpty" ELSE "Ok")
    /\ UNCHANGED <<dir, merge_dir, status, engine, active_file, older_files, index,
                   sequence_number, pc, local, kv>>

\* Engine::get, called for its result
GetKey(k) ==
    /\ CanCall
    /\ Called("get", k, Get(k).err)
    /\ UNCHANGED <<dir, merge_dir, status, engine, active_file, older_files, index,
                   sequence_number, pending_writes, pc, local, kv>>

\* a batch that commit never finds empty, and one it never finds too large
batch_never_empty(pend) == FALSE
batch_size_never_exceeded(pend) == FALSE

\* the two tests at the entry of WriteBatch::commit
batch_is_empty(pend) == DOMAIN pend = {}
batch_size_exceeded(pend) == Cardinality(DOMAIN pend) > MaxBatchSize

\* WriteBatch::commit
WriteBatch_commit ==
    /\ CanCall
    /\ IF batch_is_empty(pending_writes)
       THEN /\ Called("commit", <<>>, "Ok")
            /\ UNCHANGED <<dir, active_file, older_files, index, sequence_number,
                           pending_writes, kv>>
       ELSE IF batch_size_exceeded(pending_writes)
       THEN /\ Called("commit", <<>>, "BatchSizeExceeded")
            /\ UNCHANGED <<dir, active_file, older_files, index, sequence_number,
                           pending_writes, kv>>
       ELSE \E order \in Orders(DOMAIN pending_writes) :
            LET c == commit_append_records(dir.data, active_file, older_files, order,
                                           pending_writes, sequence_number)
                f == append_log_record(c.data, c.active_file, c.older_files,
                                       finished_record(sequence_number))
            IN /\ dir' = [dir EXCEPT !.data = f.data]
               /\ active_file' = f.active_file
               /\ older_files' = f.older_files
               /\ sequence_number' = sequence_number + 1
               /\ index' = commit_apply(index, pending_writes, c.positions, order)
               /\ pending_writes' = EmptyMap
               /\ kv' = ApplyBatch(kv, pending_writes)
               /\ Called("commit", <<>>, "Ok")
    /\ UNCHANGED <<merge_dir, status, engine, pc>>

Commit == WriteBatch_commit /\ UNCHANGED local

\* the put and delete calls the caller has made on its batch since the last
\* successful commit, in order
BatchCalls == IF local["W"].op = "batch" THEN local["W"].calls ELSE <<>>

\* the key -> value map of the engine when the first of these calls was made
BatchStartMap == IF local["W"].op = "batch" THEN local["W"].map ELSE kv

\* the number of calls made before the first of them
BatchStart == IF local["W"].op = "batch" THEN local["W"].start ELSE calls

Noted(call) ==
    local' = [local EXCEPT !["W"] = [op |-> "batch", calls |-> Append(BatchCalls, call),
                                      map |-> BatchStartMap, start |-> BatchStart]]

\* WriteBatch::put, noted by the caller
TxnPut(k, v) ==
    /\ CanCall
    /\ pending_writes' = WriteBatch_put(pending_writes, k, v)
    /\ Noted([op |-> "put", key |-> k, value |-> v])
    /\ Called("batch_put", k, "Ok")
    /\ UNCHANGED <<dir, merge_dir, status, engine, active_file, older_files, index,
                   sequence_number, pc, kv>>

\* WriteBatch::delete, noted by the caller
TxnDelete(k) ==
    /\ CanCall
    /\ pending_writes' = WriteBatch_delete(pending_writes, index, k)
    /\ Noted([op |-> "delete", key |-> k, value |-> <<>>])
    /\ Called("batch_delete", k, "Ok")
    /\ UNCHANGED <<dir, merge_dir, status, engine, active_file, older_files, index,
                   sequence_number, pc, kv>>

\* WriteBatch::commit; a commit that returns Ok ends the caller's record
TxnCommit ==
    /\ WriteBatch_commit
    /\ local' = IF last'.res = "Ok"
                THEN [local EXCEPT !["W"] = [op |-> "committed", calls |-> BatchCalls,
                                             map |-> BatchStartMap, start |-> BatchStart]]
                ELSE local

\* the process stops inside WriteBatch::commit, after j records of the batch
\* and, when fin, its TxnFinished record have been appended
CommitCrash(j, fin) ==
    /\ CanCall
    /\ DOMAIN pending_writes # {}
    /\ Cardinality(DOMAIN pending_writes) <= MaxBatchSize
    /\ j <= Cardinality(DOMAIN pending_writes)
    /\ fin => j = Cardinality(DOMAIN pending_writes)
    /\ \E order \in Orders(DOMAIN pending_writes) :
         LET c == commit_append_records(dir.data, active_file, older_files,
                                        SubSeq(order, 1, j), pending_writes, sequence_number)
             f == append_log_record(c.data, c.active_file, c.older_files,
                                    finished_record(sequence_number))
         IN dir' = Unlocked([dir EXCEPT !.data = IF fin THEN f.data ELSE c.data])
    /\ status' = "crashed"
    /\ UNCHANGED engine
    /\ pending_writes' = EmptyMap
    /\ kv' = IF fin THEN ApplyBatch(kv, pending_writes) ELSE kv
    /\ Called("commit", <<>>, IF fin THEN "StoppedAfterFinished" ELSE "StoppedBeforeFinished")
    /\ UNCHANGED <<merge_dir, active_file, older_files, index, sequence_number, pc, local>>

\* WriteBatch::commit in which the append after j successful ones returns an
\* error at the given stage: the j + 1st record of the batch, or its
\* TxnFinished record when j is the size of the batch. The `?` returns the
\* error before the sync and the index loop.
CommitFail(j, stage) ==
    /\ CanCall
    /\ DOMAIN pending_writes # {}
    /\ Cardinality(DOMAIN pending_writes) <= MaxBatchSize
    /\ j <= Cardinality(DOMAIN pending_writes)
    /\ \E order \in Orders(DOMAIN pending_writes) :
         LET c == commit_append_records(dir.data, active_file, older_files,
                                        SubSeq(order, 1, j), pending_writes, sequence_number)
             rec == IF j = Len(order) THEN finished_record(sequence_number)
                    ELSE commit_record(pending_writes, order[j + 1], sequence_number)
             f == append_log_record_fails(c.data, c.active_file, c.older_files, rec, stage)
         IN /\ stage = "rotate_sync"
                 => c.active_file.write_offset + encoded_length(rec) > DataFileSize
            /\ dir' = [dir EXCEPT !.data = f.data]
            /\ active_file' = f.active_file
            /\ older_files' = f.older_files
            /\ Called("commit", <<>>, f.err)
    /\ sequence_number' = sequence_number + 1
    /\ UNCHANGED <<merge_dir, status, engine, index, pending_writes, pc, local, kv>>

\* Engine::merge with no other thread running
Merge ==
    /\ CanCall
    /\ LET r == ratate_merge_files(dir.data, active_file, older_files)
           ms == merge_loop(r.data, index, merge_start(r.merge_files))
       IN /\ dir' = [dir EXCEPT !.data = r.data]
          /\ active_file' = r.active_file
          /\ older_files' = r.older_files
          /\ merge_dir' = Unlocked(merge_dir_of(ms, IF ms.err = "Ok"
                                                    THEN merge_finished_file(r.merge_files)
                                                    ELSE NoFile))
          /\ Called("merge", <<>>, ms.err)
    /\ UNCHANGED <<status, engine, index, sequence_number, pending_writes, pc, local, kv>>

\* Engine::close, after which the engine and its batch are dropped
Close ==
    /\ CanCall
    /\ status' = "closed"
    /\ UNCHANGED engine
    /\ dir' = Unlocked(dir)
    /\ pending_writes' = EmptyMap
    /\ Called("close", <<>>, "Ok")
    /\ UNCHANGED <<merge_dir, active_file, older_files, index, sequence_number,
                   pc, local, kv>>

\* Engine::open on the directory of the engine that is open, by another
\* caller that drops the engine it gets. When this open succeeds two engines
\* have worked on one directory: the files the first engine holds open and the
\* files of the directory are no longer the same, and the model follows the
\* engine no further (status "shared").
OpenSecond ==
    /\ CanCall
    /\ LET e == Engine_open(dir, merge_dir)
       IN /\ dir' = IF e.status = "DatabaseIsUsing" THEN dir ELSE Unlocked(e.dir)
          /\ merge_dir' = e.merge_dir
          /\ status' = IF e.status = "DatabaseIsUsing" THEN status ELSE "shared"
          /\ UNCHANGED engine
          /\ Called("open_second", <<>>, e.status)
    /\ UNCHANGED <<active_file, older_files, index, sequence_number,
                   pending_writes, pc, local, kv>>

\* Engine::open on the directory a closed or stopped engine left
Open ==
    /\ status \in {"closed", "crashed"} /\ calls < MaxCalls
    /\ LET e == Engine_open(dir, merge_dir)
       IN /\ dir' = e.dir
          /\ merge_dir' = e.merge_dir
          /\ status' = e.status
          /\ UNCHANGED engine
          /\ active_file' = e.active_file
          /\ older_files' = e.older_files
          /\ index' = e.index
          /\ sequence_number' = e.sequence_number
          /\ Called("open", <<>>, e.status)
    /\ UNCHANGED <<pending_writes, pc, local, kv>>

\* the process stops inside Engine::put, after n bytes of the record were written
PutCrash(k, v, n) ==
    /\ CanCall
    /\ n < encoded_length(LogRecord(get_record_sequence_number_with_key(k, NON_TRANSACTION_SEQ_NUMBER), v, "Normal"))
    /\ dir' = Unlocked([dir EXCEPT !.data =
                 append_log_record_torn(dir.data, active_file, older_files,
                     LogRecord(get_record_sequence_number_with_key(k, NON_TRANSACTION_SEQ_NUMBER), v, "Normal"),
                     n).data])
    /\ status' = "crashed"
    /\ UNCHANGED engine
    /\ pending_writes' = EmptyMap
    /\ Called("put", k, "TornWrite")
    /\ UNCHANGED <<merge_dir, active_file, older_files, index, sequence_number, pc, local, kv>>

\* the process stops inside WriteBatch::commit, after all records of the batch
\* and n bytes of its TxnFinished record were written
CommitTorn(n) ==
    /\ CanCall
    /\ DOMAIN pending_writes # {}
    /\ Cardinality(DOMAIN pending_writes) <= MaxBatchSize
    /\ n < encoded_length(finished_record(sequence_number))
    /\ \E order \in Orders(DOMAIN pending_writes) :
         LET c == commit_append_records(dir.data, active_file, older_files,
                                        order, pending_writes, sequence_number)
         IN dir' = Unlocked([dir EXCEPT !.data =
                      append_log_record_torn(c.data, c.active_file, c.older_files,
                                             finished_record(sequence_number), n).data])
    /\ status' = "crashed"
    /\ UNCHANGED engine
    /\ pending_writes' = EmptyMap
    /\ Called("commit", <<>>, "TornWrite")
    /\ UNCHANGED <<merge_dir, active_file, older_files, index, sequence_number, pc, local, kv>>

\* what a plain key -> value map answers to get
MapGet(map, k) ==
    IF k \in DOMAIN map THEN [err |-> "Ok", value |-> map[k]]
    ELSE [err |-> "KeyNotFound", value |-> <<>>]

\* ------------------------------------------------- actions of three threads
\* thread W writes, thread M merges, thread R reads; a step is one section of a
\* handler that runs under one lock

CanStart(t) == status = "open" /\ calls < MaxConcCalls /\ pc[t] = "idle"

Returned(t, op, key, res) ==
    /\ pc' = [pc EXCEPT ![t] = "idle"]
    /\ local' = [local EXCEPT ![t] = NoLocal]
    /\ last' = [op |-> op, key |-> key, res |-> res]

\* Engine::put up to the return of append_log_record
PutAppend(k, v) ==
    /\ CanStart("W")
    /\ LET rec == LogRecord(get_record_sequence_number_with_key(k, NON_TRANSACTION_SEQ_NUMBER),
                            v, "Normal")
           a == append_log_record(dir.data, active_file, older_files, rec)
       IN /\ dir' = [dir EXCEPT !.data = a.data]
          /\ active_file' = a.active_file
          /\ older_files' = a.older_files
          /\ local' = [local EXCEPT !["W"] = [op |-> "put", key |-> k, value |-> v, pos |-> a.pos]]
    /\ pc' = [pc EXCEPT !["W"] = "put_index"]
    /\ calls' = calls + 1
    /\ UNCHANGED <<merge_dir, status, engine, index, sequence_number, pending_writes, kv, last>>

\* Engine::put from index.put to its return
PutIndex ==
    /\ pc["W"] = "put_index"
    /\ index' = Indexer_put(index, local["W"].key, local["W"].pos)
    /\ kv' = Indexer_put(kv, local["W"].key, local["W"].value)
    /\ Returned("W", "put", local["W"].key, "Ok")
    /\ UNCHANGED <<dir, merge_dir, status, engine, active_file, older_files, sequence_number,
                   pending_writes, calls>>

\* Engine::delete up to the return of append_log_record
DeleteAppend(k) ==
    /\ CanStart("W")
    /\ calls' = calls + 1
    /\ IF k \notin DOMAIN index
       THEN /\ last' = [op |-> "delete", key |-> k, res |-> "KeyNotFound"]
            /\ UNCHANGED <<dir, active_file, older_files, pc, local>>
       ELSE LET rec == LogRecord(get_record_sequence_number_with_key(k, NON_TRANSACTION_SEQ_NUMBER),
                                 <<>>, "Deleted")
                a == append_log_record(dir.data, active_file, older_files, rec)
            IN /\ dir' = [dir EXCEPT !.data = a.data]
               /\ active_file' = a.active_file
               /\ older_files' = a.older_files
               /\ local' = [local EXCEPT !["W"] = [op |-> "delete", key |-> k]]
               /\ pc' = [pc EXCEPT !["W"] = "delete_index"]
               /\ UNCHANGED last
    /\ UNCHANGED <<merge_dir, status, engine, index, sequence_number, pending_writes, kv>>

\* Engine::delete from index.delete to its return
DeleteIndex ==
    /\ pc["W"] = "delete_index"
    /\ index' = Indexer_delete(index, local["W"].key)
    /\ kv' = Indexer_delete(kv, local["W"].key)
    /\ Returned("W", "delete", local["W"].key,
                IF local["W"].key \in DOMAIN index THEN "Ok" ELSE "FailedToUpdateIndex")
    /\ UNCHANGED <<dir, merge_dir, status, engine, active_file, older_files, sequence_number,
                   pending_writes, calls>>

\* WriteBatch::put by thread W
StagePut(k, v) ==
    /\ CanStart("W")
    /\ pending_writes' = WriteBatch_put(pending_writes, k, v)
    /\ Called("batch_put", k, "Ok")
    /\ UNCHANGED <<dir, merge_dir, status, engine, active_file, older_files, index,
                   sequence_number, pc, local, kv>>

\* WriteBatch::delete by thread W
StageDelete(k) ==
    /\ CanStart("W")
    /\ pending_writes' = WriteBatch_delete(pending_writes, index, k)
    /\ Called("batch_delete", k, "Ok")
    /\ UNCHANGED <<dir, merge_dir, status, engine, active_file, older_files, index,
                   sequence_number, pc, local, kv>>

\* a commit mutex that no thread ever finds taken
batch_commit_mutex_never_held == FALSE

\* batch_commit_mutex, taken by WriteBatch::commit before its fetch_add and
\* released when the call returns
batch_commit_mutex_held ==
    \E t \in Threads : pc[t] \in {"commit_append", "commit_sync", "commit_apply"}

\* WriteBatch::commit up to the fetch_add of the sequence number
CommitBegin ==
    /\ CanStart("W")
    /\ ~batch_commit_mutex_held
    /\ DOMAIN pending_writes # {}
    /\ Cardinality(DOMAIN pending_writes) <= MaxBatchSize
    /\ \E order \in Orders(DOMAIN pending_writes) :
         local' = [local EXCEPT !["W"] =
                      [op |-> "commit", seq |-> sequence_number, order |-> order,
                       todo |-> order, positions |-> EmptyMap]]
    /\ sequence_number' = sequence_number + 1
    /\ pc' = [pc EXCEPT !["W"] = "commit_append"]
    /\ calls' = calls + 1
    /\ UNCHANGED <<dir, merge_dir, status, engine, active_file, older_files, index,
                   pending_writes, kv, last>>

\* one iteration of the append loop of WriteBatch::commit
CommitAppend ==
    /\ pc["W"] = "commit_append" /\ local["W"].todo # <<>>
    /\ LET key == Head(local["W"].todo)
           a == append_log_record(dir.data, active_file, older_files,
                                  commit_record(pending_writes, key, local["W"].seq))
       IN /\ dir' = [dir EXCEPT !.data = a.data]
          /\ active_file' = a.active_file
          /\ older_files' = a.older_files
          /\ local' = [local EXCEPT !["W"].todo = Tail(@),
                                    !["W"].positions = Indexer_put(@, key, a.pos)]
    /\ UNCHANGED <<merge_dir, status, engine, index, sequence_number, pending_writes, pc, kv,
                   last, calls>>

\* WriteBatch::commit appends the TxnFinished record
CommitFinished ==
    /\ pc["W"] = "commit_append" /\ local["W"].todo = <<>>
    /\ LET f == append_log_record(dir.data, active_file, older_files,
                                  finished_record(local["W"].seq))
       IN /\ dir' = [dir EXCEPT !.data = f.data]
          /\ active_file' = f.active_file
          /\ older_files' = f.older_files
    /\ local' = [local EXCEPT !["W"].todo = local["W"].order]
    /\ pc' = [pc EXCEPT !["W"] = "commit_apply"]
    /\ UNCHANGED <<merge_dir, status, engine, index, sequence_number, pending_writes, kv,
                   last, calls>>

\* one iteration of the index loop of WriteBatch::commit, and its return after
\* the last one
CommitApply ==
    /\ pc["W"] = "commit_apply"
    /\ index' = commit_apply_one(index, pending_writes, local["W"].positions,
                                 Head(local["W"].todo))
    /\ IF Tail(local["W"].todo) = <<>>
       THEN /\ kv' = ApplyBatch(kv, pending_writes)
            /\ pending_writes' = EmptyMap
            /\ Returned("W", "commit", <<>>, "Ok")
       ELSE /\ local' = [local EXCEPT !["W"].todo = Tail(@)]
            /\ UNCHANGED <<kv, pending_writes, pc, last>>
    /\ UNCHANGED <<dir, merge_dir, status, engine, active_file, older_files, sequence_number, calls>>

\* a commit that never asks for the fsync
sync_write_ignored(sync_write) == FALSE

\* WriteBatch::commit, `if self.options.sync_write`: whether the commit calls
\* Engine::sync after its TxnFinished record
sync_requested(sync_write) == sync_write

\* WriteBatch::commit up to the fetch_add of the sequence number, for a batch
\* made with the given sync_write option
SyncCommitBegin(sync_write) ==
    /\ CanStart("W")
    /\ ~batch_commit_mutex_held
    /\ DOMAIN pending_writes # {}
    /\ Cardinality(DOMAIN pending_writes) <= MaxBatchSize
    /\ \E order \in Orders(DOMAIN pending_writes) :
         local' = [local EXCEPT !["W"] =
                      [op |-> "commit", seq |-> sequence_number, order |-> order,
                       todo |-> order, positions |-> EmptyMap,
                       sync_write |-> sync_write, synced |-> FALSE]]
    /\ sequence_number' = sequence_number + 1
    /\ pc' = [pc EXCEPT !["W"] = "commit_append"]
    /\ calls' = calls + 1
    /\ UNCHANGED <<dir, merge_dir, status, engine, active_file, older_files, index,
                   pending_writes, kv, last>>

\* WriteBatch::commit appends the TxnFinished record; the sync is still to come
SyncCommitFinished ==
    /\ pc["W"] = "commit_append" /\ local["W"].todo = <<>>
    /\ LET f == append_log_record(dir.data, active_file, older_files,
                                  finished_record(local["W"].seq))
       IN /\ dir' = [dir EXCEPT !.data = f.data]
          /\ active_file' = f.active_file
          /\ older_files' = f.older_files
    /\ local' = [local EXCEPT !["W"].todo = local["W"].order]
    /\ pc' = [pc EXCEPT !["W"] = "commit_sync"]
    /\ UNCHANGED <<merge_dir, status, engine, index, sequence_number, pending_writes, kv,
                   last, calls>>

\* WriteBatch::commit between the TxnFinished record and the index loop:
\* Engine::sync on the active file when the batch asks for it
CommitSync ==
    /\ pc["W"] = "commit_sync"
    /\ local' = [local EXCEPT !["W"].synced = sync_requested(local["W"].sync_write)]
    /\ pc' = [pc EXCEPT !["W"] = "commit_apply"]
    /\ UNCHANGED <<dir, merge_dir, status, engine, active_file, older_files, index,
                   sequence_number, pending_writes, kv, last, calls>>

\* Engine::merge up to the open of the side engine: the merge directory is
\* recreated and the active file rotated
MergeRotate ==
    /\ CanStart("M")
    /\ LET r == ratate_merge_files(dir.data, active_file, older_files)
       IN /\ dir' = [dir EXCEPT !.data = r.data]
          /\ active_file' = r.active_file
          /\ older_files' = r.older_files
          /\ local' = [local EXCEPT !["M"] =
                          [op |-> "merge", merge_files |-> r.merge_files,
                           ms |-> merge_start(r.merge_files)]]
          /\ merge_dir' = merge_dir_of(merge_start(r.merge_files), NoFile)
    /\ pc' = [pc EXCEPT !["M"] = "merge_loop"]
    /\ calls' = calls + 1
    /\ UNCHANGED <<status, engine, index, sequence_number, pending_writes, kv, last>>

\* one iteration of the record loop of Engine::merge
MergeRecord ==
    /\ pc["M"] = "merge_loop"
    /\ local["M"].ms.cands # <<>> /\ local["M"].ms.err = "Ok"
    /\ local' = [local EXCEPT !["M"].ms = merge_record(dir.data, index, @)]
    /\ merge_dir' = merge_dir_of(merge_record(dir.data, index, local["M"].ms), NoFile)
    /\ UNCHANGED <<dir, status, engine, active_file, older_files, index, sequence_number,
                   pending_writes, pc, kv, last, calls>>

\* Engine::merge after its record loop: the merge-finished file, and the return
MergeFinish ==
    /\ pc["M"] = "merge_loop"
    /\ local["M"].ms.cands = <<>> \/ local["M"].ms.err # "Ok"
    /\ merge_dir' = Unlocked(merge_dir_of(local["M"].ms,
                                          IF local["M"].ms.err = "Ok"
                                          THEN merge_finished_file(local["M"].merge_files)
                                          ELSE NoFile))
    /\ Returned("M", "merge", <<>>, local["M"].ms.err)
    /\ UNCHANGED <<dir, status, engine, active_file, older_files, index, sequence_number,
                   pending_writes, kv, calls>>

\* the batches a second thread has staged: every non-empty choice of a put or
\* a delete for some keys
SecondBatches ==
    UNION {[S -> {[value |-> <<1>>, rec_type |-> "Normal"],
                  [value |-> <<>>, rec_type |-> "Deleted"]}] : S \in (SUBSET Keys) \ {{}}}

\* WriteBatch::commit of a batch of thread R, up to the fetch_add of the
\* sequence number
SecondCommitBegin(batch) ==
    /\ CanStart("R")
    /\ ~batch_commit_mutex_held
    /\ Cardinality(DOMAIN batch) <= MaxBatchSize
    /\ \E order \in Orders(DOMAIN batch) :
         local' = [local EXCEPT !["R"] =
                      [op |-> "commit", seq |-> sequence_number, order |-> order,
                       todo |-> order, positions |-> EmptyMap, batch |-> batch]]
    /\ sequence_number' = sequence_number + 1
    /\ pc' = [pc EXCEPT !["R"] = "commit_append"]
    /\ calls' = calls + 1
    /\ UNCHANGED <<dir, merge_dir, status, engine, active_file, older_files, index,
                   pending_writes, kv, last>>

\* one iteration of the append loop of the commit of thread R
SecondCommitAppend ==
    /\ pc["R"] = "commit_append" /\ local["R"].todo # <<>>
    /\ LET key == Head(local["R"].todo)
           a == append_log_record(dir.data, active_file, older_files,
                                  commit_record(local["R"].batch, key, local["R"].seq))
       IN /\ dir' = [dir EXCEPT !.data = a.data]
          /\ active_file' = a.active_file
          /\ older_files' = a.older_files
          /\ local' = [local EXCEPT !["R"].todo = Tail(@),
                                    !["R"].positions = Indexer_put(@, key, a.pos)]
    /\ UNCHANGED <<merge_dir, status, engine, index, sequence_number, pending_writes, pc, kv,
                   last, calls>>

\* the commit of thread R appends the TxnFinished record
SecondCommitFinished ==
    /\ pc["R"] = "commit_append" /\ local["R"].todo = <<>>
    /\ LET f == append_log_record(dir.data, active_file, older_files,
                                  finished_record(local["R"].seq))
       IN /\ dir' = [dir EXCEPT !.data = f.data]
          /\ active_file' = f.active_file
          /\ older_files' = f.older_files
    /\ local' = [local EXCEPT !["R"].todo = local["R"].order]
    /\ pc' = [pc EXCEPT !["R"] = "commit_apply"]
    /\ UNCHANGED <<merge_dir, status, engine, index, sequence_number, pending_writes, kv,
                   last, calls>>

\* one iteration of the index loop of the commit of thread R, and its return
\* after the last one
SecondCommitApply ==
    /\ pc["R"] = "commit_apply"
    /\ index' = commit_apply_one(index, local["R"].batch, local["R"].positions,
                                 Head(local["R"].todo))
    /\ IF Tail(local["R"].todo) = <<>>
       THEN /\ kv' = ApplyBatch(kv, local["R"].batch)
            /\ Returned("R", "commit_second", <<>>, "Ok")
       ELSE /\ local' = [local EXCEPT !["R"].todo = Tail(@)]
            /\ UNCHANGED <<kv, pc, last>>
    /\ UNCHANGED <<dir, merge_dir, status, engine, active_file, older_files, sequence_number,
                   pending_writes, calls>>

\* a merge lock that no thread ever finds taken
merge_lock_never_held == FALSE

\* merge_lock, taken by try_lock at the entry of Engine::merge and released
\* when the call returns
merge_lock_held == pc["M"] = "merge_loop"

\* Engine::merge called by thread R: it returns at once when the merge lock is
\* taken, and otherwise merges with no step of another thread in between
MergeSecond ==
    /\ CanStart("R")
    /\ calls' = calls + 1
    /\ IF merge_lock_held
       THEN /\ last' = [op |-> "merge_second", key |-> <<>>, res |-> "MergeInProgress"]
            /\ UNCHANGED <<dir, merge_dir, active_file, older_files>>
       ELSE LET r == ratate_merge_files(dir.data, active_file, older_files)
                ms == merge_loop(r.data, index, merge_start(r.merge_files))
            IN /\ dir' = [dir EXCEPT !.data = r.data]
               /\ active_file' = r.active_file
               /\ older_files' = r.older_files
               /\ merge_dir' = Unlocked(merge_dir_of(ms, IF ms.err = "Ok"
                                                         THEN merge_finished_file(r.merge_files)
                                                         ELSE NoFile))
               /\ last' = [op |-> "merge_second", key |-> <<>>, res |-> ms.err]
    /\ UNCHANGED <<status, engine, index, sequence_number, pending_writes, pc, local, kv>>

\* a commit of thread W has taken its sequence number and not yet returned
Committing == pc["W"] \in {"commit_append", "commit_apply"}

\* how the answer of get(k) relates to the commit in flight: "post" when it
\* shows the batch's effect on k, "pre" when it shows the state before the
\* commit, "none" when the commit does not change what get(k) answers
View(k) ==
    IF ~Committing \/ k \notin DOMAIN pending_writes
       \/ MapGet(ApplyBatch(kv, pending_writes), k) = MapGet(kv, k)
    THEN "none"
    ELSE IF Get(k) = MapGet(ApplyBatch(kv, pending_writes), k) THEN "post"
    ELSE IF Get(k) = MapGet(kv, k) THEN "pre"
    ELSE "other"

\* the sequence number of the commit in flight
CommitInFlight == IF Committing THEN local["W"].seq ELSE NON_TRANSACTION_SEQ_NUMBER

\* thread R calls Engine::get(k)
GetFirst(k) ==
    /\ CanStart("R")
    /\ local' = [local EXCEPT !["R"] =
                    [op |-> "get", key |-> k, view |-> View(k), seq |-> CommitInFlight]]
    /\ pc' = [pc EXCEPT !["R"] = "get_second"]
    /\ calls' = calls + 1
    /\ UNCHANGED <<dir, merge_dir, status, engine, active_file, older_files, index,
                   sequence_number, pending_writes, kv, last>>

\* thread R calls Engine::get on another key
GetSecond(k) ==
    /\ pc["R"] = "get_second" /\ k # local["R"].key
    /\ local' = [local EXCEPT !["R"] =
                    [op |-> "gets", first |-> local["R"].view, second |-> View(k),
                     same_commit |-> local["R"].seq = CommitInFlight]]
    /\ pc' = [pc EXCEPT !["R"] = "idle"]
    /\ UNCHANGED <<dir, merge_dir, status, engine, active_file, older_files, index,
                   sequence_number, pending_writes, kv, last, calls>>

\* ---------------------------------------------------------- specifications

\* puts, deletes, batches, close and reopen by one thread
Next ==
    \/ \E k \in Keys, v \in Values : Put(k, v)
    \/ \E k \in Keys : Delete(k)
    \/ \E k \in Keys, v \in Values : BatchPut(k, v)
    \/ \E k \in Keys : BatchDelete(k)
    \/ Commit
    \/ Close
    \/ Open

Spec == Init /\ [][Next]_vars

\* puts, deletes, merges, close and reopen by one thread
NextKV ==
    \/ \E k \in Keys, v \in Values : Put(k, v)
    \/ \E k \in Keys : Delete(k)
    \/ Merge
    \/ Close
    \/ Open

SpecKV == Init /\ [][NextKV]_vars

\* ---------------------------------------------------------------- iterators
\* the keys an iterator is tried on, the keys it is sent to, and its prefixes
IterKeys == {<<97>>, <<97, 97>>, <<97, 98>>, <<98>>}
SeekKeys == IterKeys \cup {<<96>>, <<97, 97, 97>>, <<99>>}
Prefixes == {<<>>, <<97>>, <<97, 97>>}

\* Ord::cmp on Vec<u8>: -1 for Less, 0 for Equal, 1 for Greater
RECURSIVE cmp(_, _)
cmp(x, y) ==
    IF x = <<>> THEN (IF y = <<>> THEN 0 ELSE -1)
    ELSE IF y = <<>> THEN 1
    ELSE IF Head(x) < Head(y) THEN -1
    ELSE IF Head(x) > Head(y) THEN 1
    ELSE cmp(Tail(x), Tail(y))

\* slice::starts_with
starts_with(x, prefix) == Len(prefix) <= Len(x) /\ SubSeq(x, 1, Len(prefix)) = prefix

\* the entries of the BTreeMap in the order of BTreeMap::iter
RECURSIVE BTreeMap_iter(_, _)
BTreeMap_iter(idx, S) ==
    IF S = {} THEN <<>>
    ELSE LET m == CHOOSE x \in S : \A y \in S : cmp(x, y) <= 0
         IN <<[key |-> m, pos |-> idx[m]]>> \o BTreeMap_iter(idx, S \ {m})

\* Vec::reverse
Vec_reverse(items) == [i \in 1..Len(items) |-> items[Len(items) + 1 - i]]

IteratorOptions(reverse, prefix) == [reverse |-> reverse, prefix |-> prefix]

\* an iterator that lists the snapshot in ascending order whatever its options
BTree_iterator_forward(idx, options) ==
    [items |-> BTreeMap_iter(idx, DOMAIN idx), idx |-> 0, options |-> options]

\* BTree::iterator
BTree_iterator(idx, options) ==
    [items |-> IF options.reverse THEN Vec_reverse(BTreeMap_iter(idx, DOMAIN idx))
               ELSE BTreeMap_iter(idx, DOMAIN idx),
     idx |-> 0, options |-> options]

\* BTreeIterator::rewind
BTreeIterator_rewind(it) == [it EXCEPT !.idx = 0]

\* a search that compares in ascending order whatever the direction
RECURSIVE binary_search_by_forward(_, _, _, _, _)
binary_search_by_forward(items, key, reverse, left, right) ==
    IF left >= right THEN left
    ELSE IF cmp(items[left + (right - left) \div 2 + 1].key, key) = 0
         THEN left + (right - left) \div 2
    ELSE IF cmp(items[left + (right - left) \div 2 + 1].key, key) < 0
         THEN binary_search_by_forward(items, key, reverse,
                                       left + (right - left) \div 2 + 1, right)
    ELSE binary_search_by_forward(items, key, reverse, left,
                                  left + (right - left) \div 2)

\* the comparator BTreeIterator::seek hands to binary_search_by
seek_cmp(x, key, reverse) == IF reverse THEN 0 - cmp(x, key) ELSE cmp(x, key)

\* slice::binary_search_by with that comparator, on items[left..right]: the
\* index found, or the index where the key would be inserted
RECURSIVE binary_search_by(_, _, _, _, _)
binary_search_by(items, key, reverse, left, right) ==
    IF left >= right THEN left
    ELSE IF seek_cmp(items[left + (right - left) \div 2 + 1].key, key, reverse) = 0
         THEN left + (right - left) \div 2
    ELSE IF seek_cmp(items[left + (right - left) \div 2 + 1].key, key, reverse) < 0
         THEN binary_search_by(items, key, reverse, left + (right - left) \div 2 + 1, right)
    ELSE binary_search_by(items, key, reverse, left, left + (right - left) \div 2)

\* BTreeIterator::seek
BTreeIterator_seek(it, key) ==
    [it EXCEPT !.idx = binary_search_by(it.items, key, it.options.reverse, 0, Len(it.items))]

\* what next returns: an item or None
NoItem == [some |-> FALSE, key |-> <<>>, value |-> <<>>]

\* a next that returns the item at the cursor whatever the prefix
BTreeIterator_next_any_prefix(it) ==
    IF it.idx >= Len(it.items) THEN [it |-> it, some |-> FALSE, key |-> <<>>,
                                     pos |-> LogRecordPos(0, 0)]
    ELSE [it |-> [it EXCEPT !.idx = @ + 1], some |-> TRUE,
          key |-> it.items[it.idx + 1].key, pos |-> it.items[it.idx + 1].pos]

\* BTreeIterator::next
RECURSIVE BTreeIterator_next(_)
BTreeIterator_next(it) ==
    IF it.idx >= Len(it.items) THEN [it |-> it, some |-> FALSE, key |-> <<>>,
                                     pos |-> LogRecordPos(0, 0)]
    ELSE IF \/ it.options.prefix = <<>>
            \/ starts_with(it.items[it.idx + 1].key, it.options.prefix)
         THEN [it |-> [it EXCEPT !.idx = @ + 1], some |-> TRUE,
               key |-> it.items[it.idx + 1].key, pos |-> it.items[it.idx + 1].pos]
    ELSE BTreeIterator_next([it EXCEPT !.idx = @ + 1])

\* a next that reads the value at the item's offset in the active file
Iterator_next_active(n, data, af, older) ==
    IF ~n.some THEN NoItem
    ELSE [some |-> TRUE, key |-> n.key,
          value |-> get_value_by_position(data, af, older,
                                          LogRecordPos(af.file_id, n.pos.offset)).value]

\* Iterator::next: the item of the index iterator with its value read from the
\* data files
Iterator_next(n, data, af, older) ==
    IF ~n.some THEN NoItem
    ELSE [some |-> TRUE, key |-> n.key,
          value |-> get_value_by_position(data, af, older, n.pos).value]

\* the iterator that thread R holds: the index iterator, the keys of the index
\* when it was made with the values get returned for them then, the keys
\* emitted since its start, whether it was sent
\* somewhere since, the key of the seek before the last call, and what the
\* last next returned
HasIter == local["R"].op = "iter"

\* Engine::iter
IterNew(reverse, prefix) ==
    /\ status = "open"
    /\ local' = [local EXCEPT !["R"] =
                    [op |-> "iter",
                     it |-> BTree_iterator(index, IteratorOptions(reverse, prefix)),
                     keys |-> DOMAIN index,
                     values |-> [k \in DOMAIN index |-> Get(k).value],
                     out |-> <<>>, fresh |-> TRUE,
                     sought |-> NoItem, after_seek |-> NoItem, ret |-> NoItem,
                     lastop |-> "new"]]
    /\ UNCHANGED <<dir, merge_dir, status, engine, active_file, older_files, index,
                   sequence_number, pending_writes, pc, kv, last, calls>>

\* Iterator::rewind
IterRewind ==
    /\ HasIter
    /\ local' = [local EXCEPT !["R"].it = BTreeIterator_rewind(@),
                              !["R"].out = <<>>, !["R"].fresh = TRUE,
                              !["R"].sought = NoItem, !["R"].after_seek = NoItem,
                              !["R"].ret = NoItem, !["R"].lastop = "rewind"]
    /\ UNCHANGED <<dir, merge_dir, status, engine, active_file, older_files, index,
                   sequence_number, pending_writes, pc, kv, last, calls>>

\* Iterator::seek
IterSeek(key) ==
    /\ HasIter
    /\ local' = [local EXCEPT !["R"].it = BTreeIterator_seek(@, key),
                              !["R"].out = <<>>, !["R"].fresh = FALSE,
                              !["R"].sought = [some |-> TRUE, key |-> key, value |-> <<>>],
                              !["R"].after_seek = NoItem,
                              !["R"].ret = NoItem, !["R"].lastop = "seek"]
    /\ UNCHANGED <<dir, merge_dir, status, engine, active_file, older_files, index,
                   sequence_number, pending_writes, pc, kv, last, calls>>

\* Iterator::next
IterNext ==
    /\ HasIter
    /\ local' = [local EXCEPT
                    !["R"].it = BTreeIterator_next(@).it,
                    !["R"].out = IF BTreeIterator_next(local["R"].it).some
                                 THEN Append(@, BTreeIterator_next(local["R"].it).key)
                                 ELSE @,
                    !["R"].after_seek = local["R"].sought,
                    !["R"].sought = NoItem,
                    !["R"].ret = Iterator_next(BTreeIterator_next(local["R"].it),
                                               dir.data, active_file, older_files),
                    !["R"].lastop = "next"]
    /\ UNCHANGED <<dir, merge_dir, status, engine, active_file, older_files, index,
                   sequence_number, pending_writes, pc, kv, last, calls>>

\* Engine::put and Engine::delete of the thread that writes beside the iterator
IterPut(k) == calls < MaxIterCalls /\ Put(k, <<1>>)
IterDelete(k) == calls < MaxIterCalls /\ Delete(k)

\* one thread, and a second caller that opens the directory in use
NextLock ==
    \/ NextKV
    \/ OpenSecond

SpecLock == Init /\ [][NextLock]_vars

\* one thread that also passes the empty key
NextEmptyKey ==
    \/ \E k \in Keys \cup {<<>>}, v \in Values : Put(k, v)
    \/ \E k \in Keys \cup {<<>>} : Delete(k)
    \/ \E k \in Keys \cup {<<>>}, v \in Values : BatchPut(k, v)
    \/ \E k \in Keys \cup {<<>>} : BatchDelete(k)
    \/ \E k \in Keys \cup {<<>>} : GetKey(k)
    \/ Commit

SpecEmptyKey == Init /\ [][NextEmptyKey]_vars

\* one thread, and a process that may stop between two appends of a commit
NextCrash ==
    \/ Next
    \/ \E j \in 0..MaxBatchSize, fin \in BOOLEAN : CommitCrash(j, fin)

SpecCrash == Init /\ [][NextCrash]_vars

\* one thread, and a process that may stop inside the write of a record
NextTorn ==
    \/ \E k \in Keys, v \in Values : Put(k, v)
    \/ \E k \in Keys : Delete(k)
    \/ \E k \in Keys, v \in Values : BatchPut(k, v)
    \/ \E k \in Keys : BatchDelete(k)
    \/ Commit
    \/ \E k \in Keys, v \in Values, n \in 1..MaxTorn : PutCrash(k, v, n)
    \/ \E n \in 1..MaxTorn : CommitTorn(n)
    \/ Open

SpecTorn == Init /\ [][NextTorn]_vars

\* a writer thread committing batches beside a reader thread
NextRead ==
    \/ \E k \in Keys, v \in Values : PutAppend(k, v)
    \/ PutIndex
    \/ \E k \in Keys, v \in Values : StagePut(k, v)
    \/ \E k \in Keys : StageDelete(k)
    \/ CommitBegin
    \/ CommitAppend
    \/ CommitFinished
    \/ CommitApply
    \/ \E k \in Keys : GetFirst(k)
    \/ \E k \in Keys : GetSecond(k)

SpecRead == Init /\ [][NextRead]_vars

\* a writer thread beside a merging thread, then close and reopen
NextMerge ==
    \/ \E k \in Keys, v \in Values : PutAppend(k, v)
    \/ PutIndex
    \/ \E k \in Keys : DeleteAppend(k)
    \/ DeleteIndex
    \/ \E k \in Keys, v \in Values : StagePut(k, v)
    \/ \E k \in Keys : StageDelete(k)
    \/ CommitBegin
    \/ CommitAppend
    \/ CommitFinished
    \/ CommitApply
    \/ MergeRotate
    \/ MergeRecord
    \/ MergeFinish
    \/ Close
    \/ Open

SpecMerge == Init /\ [][NextMerge]_vars

\* one thread that commits batches, merges, closes and reopens
NextSeq ==
    \/ \E k \in Keys, v \in Values : BatchPut(k, v)
    \/ \E k \in Keys : BatchDelete(k)
    \/ Commit
    \/ Merge
    \/ Close
    \/ Open

SpecSeq == Init /\ [][NextSeq]_vars

\* puts and deletes beside an iterator
NextIter ==
    \/ \E k \in IterKeys : IterPut(k)
    \/ \E k \in IterKeys : IterDelete(k)
    \/ \E reverse \in BOOLEAN, prefix \in Prefixes : IterNew(reverse, prefix)
    \/ IterRewind
    \/ \E k \in SeekKeys : IterSeek(k)
    \/ IterNext

SpecIter == Init /\ [][NextIter]_vars

\* one thread that stages one key more than a batch may hold
BatchKeys == {<<96 + i>> : i \in 1..(MaxBatchSize + 1)}

NextBatchSize ==
    \/ \E k \in BatchKeys : BatchPut(k, <<1>>)
    \/ \E k \in BatchKeys : BatchDelete(k)
    \/ Commit

SpecBatchSize == Init /\ [][NextBatchSize]_vars

\* the batches of the second thread that stage puts only
PutBatches == {b \in SecondBatches : \A k \in DOMAIN b : b[k].rec_type = "Normal"}

\* a thread that puts and deletes beside a thread that commits batches of puts,
\* then close and reopen
NextRace ==
    \/ \E k \in Keys, v \in Values : PutAppend(k, v)
    \/ PutIndex
    \/ \E k \in Keys : DeleteAppend(k)
    \/ DeleteIndex
    \/ \E batch \in PutBatches : SecondCommitBegin(batch)
    \/ SecondCommitAppend
    \/ SecondCommitFinished
    \/ SecondCommitApply
    \/ Close
    \/ Open

SpecRace == Init /\ [][NextRace]_vars

\* the callers of append_log_record at once: a thread that puts and deletes, a
\* thread that commits batches of puts, and a merge that rotates
NextAppend ==
    \/ \E k \in Keys, v \in Values : calls < MaxAppendCalls /\ PutAppend(k, v)
    \/ PutIndex
    \/ \E k \in Keys : calls < MaxAppendCalls /\ DeleteAppend(k)
    \/ DeleteIndex
    \/ \E batch \in PutBatches : calls < MaxAppendCalls /\ SecondCommitBegin(batch)
    \/ SecondCommitAppend
    \/ SecondCommitFinished
    \/ SecondCommitApply
    \/ calls < MaxAppendCalls /\ MergeRotate
    \/ MergeRecord
    \/ MergeFinish

SpecAppend == Init /\ [][NextAppend]_vars

\* a thread that commits batches with and without sync_write, step by step,
\* next to a second thread that commits
NextSync ==
    \/ \E k \in Keys, v \in Values : StagePut(k, v)
    \/ \E k \in Keys : StageDelete(k)
    \/ \E sync_write \in BOOLEAN : SyncCommitBegin(sync_write)
    \/ CommitAppend
    \/ SyncCommitFinished
    \/ CommitSync
    \/ CommitApply
    \/ \E batch \in SecondBatches : SecondCommitBegin(batch)
    \/ SecondCommitAppend
    \/ SecondCommitFinished
    \/ SecondCommitApply

SpecSync == Init /\ [][NextSync]_vars

\* one thread whose commits can fail in an append
NextFail ==
    \/ \E k \in Keys, v \in Values : calls < MaxFailCalls /\ Put(k, v)
    \/ \E k \in Keys : calls < MaxFailCalls /\ Delete(k)
    \/ \E k \in Keys, v \in Values : calls < MaxFailCalls /\ BatchPut(k, v)
    \/ \E k \in Keys : calls < MaxFailCalls /\ BatchDelete(k)
    \/ calls < MaxFailCalls /\ Commit
    \/ \E j \in 0..MaxBatchSize, stage \in FailStages :
         calls < MaxFailCalls /\ CommitFail(j, stage)
    \/ calls < MaxFailCalls /\ Close
    \/ calls < MaxFailCalls /\ Open

SpecFail == Init /\ [][NextFail]_vars

\* one thread that stages calls in a batch, commits it, and also puts and
\* deletes directly
NextBatch ==
    \/ \E k \in Keys, v \in Values : calls < MaxBatchCalls /\ Put(k, v)
    \/ \E k \in Keys : calls < MaxBatchCalls /\ Delete(k)
    \/ \E k \in Keys, v \in Values : calls < MaxBatchCalls /\ TxnPut(k, v)
    \/ \E k \in Keys : calls < MaxBatchCalls /\ TxnDelete(k)
    \/ calls < MaxBatchCalls /\ TxnCommit

SpecBatch == Init /\ [][NextBatch]_vars

\* one thread that uses every call of the engine and of its batch
NextEngine ==
    \/ \E k \in Keys, v \in Values : Put(k, v)
    \/ \E k \in Keys : Delete(k)
    \/ \E k \in Keys, v \in Values : BatchPut(k, v)
    \/ \E k \in Keys : BatchDelete(k)
    \/ Commit
    \/ Merge
    \/ Close
    \/ Open

SpecEngine == Init /\ [][NextEngine]_vars

\* two threads that commit batches
NextCommits ==
    \/ \E k \in Keys, v \in Values : StagePut(k, v)
    \/ \E k \in Keys : StageDelete(k)
    \/ CommitBegin
    \/ CommitAppend
    \/ CommitFinished
    \/ CommitApply
    \/ \E batch \in SecondBatches : SecondCommitBegin(batch)
    \/ SecondCommitAppend
    \/ SecondCommitFinished
    \/ SecondCommitApply

SpecCommits == Init /\ [][NextCommits]_vars

\* a writer thread beside two threads that call merge
NextMergeLock ==
    \/ NextMerge
    \/ MergeSecond

SpecMergeLock == Init /\ [][NextMergeLock]_vars

\* ------------------------------------------------------------------ claims

GetIsMap == \A k \in Keys : Get(k) = MapGet(kv, k)

OpenFailed == status \notin {"open", "closed", "crashed"}

\* some data file of the directory holds a record of this type for key k
HasRecord(k, rec_type) ==
    \E f \in DOMAIN dir.data : \E i \in 1..Len(dir.data[f]) :
        /\ dir.data[f][i].rec.rec_type = rec_type
        /\ parse_record_sequence_number_with_key(dir.data[f][i].rec.key).key = k

\* C1: after any sequence of put and delete calls, across rotations of the
\* active file, get(k) returns the value of the last put(k) that no later
\* delete(k) follows, and KeyNotFound when there is none.
C1_PutDeleteGetIsMap ==
    (status = "open" /\ last.op \in {"put", "delete"}) => GetIsMap

\* a put has overwritten a key whose older record sits in a rotated file
C1_Witness ==
    /\ status = "open" /\ last.op = "put" /\ ~merge_dir.exists /\ ~dir.hint.exists
    /\ last.key \in DOMAIN index
    /\ index[last.key].file_id > INITIAL_DATA_FILE_ID
    /\ \E i \in 1..Len(dir.data[INITIAL_DATA_FILE_ID]) :
         /\ dir.data[INITIAL_DATA_FILE_ID][i].rec.rec_type = "Normal"
         /\ parse_record_sequence_number_with_key(dir.data[INITIAL_DATA_FILE_ID][i].rec.key).key = last.key
         /\ dir.data[INITIAL_DATA_FILE_ID][i].rec.value # kv[last.key]

C10_DeleteRemovesKey ==
    /\ [](~OpenFailed /\ (status = "open" => \A k \in Keys \ DOMAIN kv : Get(k).err = "KeyNotFound"))
    /\ [][(last'.op = "delete" /\ calls' = calls + 1 /\ last'.key \notin DOMAIN index)
            => (last'.res = "KeyNotFound" /\ dir' = dir /\ index' = index)]_vars

\* a deleted key is still absent after the reopen that replays its tombstone
C10_Witness ==
    /\ status = "open" /\ last.op = "open"
    /\ \E k \in Keys : k \notin DOMAIN kv /\ HasRecord(k, "Deleted") /\ Get(k).err = "KeyNotFound"

\* the record the index entry of key k points at
IndexedRecord(k) ==
    read_log_record(dir.data[index[k].file_id], index[k].offset).record

\* C9: WriteBatch.put and WriteBatch.delete change neither the index nor any
\* file, so get answers as before; after a successful commit every staged put
\* is readable with its staged value and every staged delete is KeyNotFound.
C9_BatchStagedUntilCommit ==
    [][/\ (calls' = calls + 1 /\ last'.op \in {"batch_put", "batch_delete"}) =>
            /\ index' = index /\ dir' = dir
            /\ \A k \in Keys : Get(k)' = Get(k)
       /\ (calls' = calls + 1 /\ last'.op = "commit" /\ last'.res = "Ok") =>
            \A k \in DOMAIN pending_writes :
                IF pending_writes[k].rec_type = "Normal"
                THEN Get(k)' = [err |-> "Ok", value |-> pending_writes[k].value]
                ELSE Get(k)'.err = "KeyNotFound"]_vars

\* a commit has applied a batch holding a put of one key and a delete of another
C9_Witness ==
    /\ status = "open" /\ last.op = "commit" /\ last.res = "Ok"
    /\ sequence_number - 1 > NON_TRANSACTION_SEQ_NUMBER
    /\ \E k \in DOMAIN index :
         parse_record_sequence_number_with_key(IndexedRecord(k).key).seq = sequence_number - 1
    /\ \E k \in Keys \ DOMAIN index : \E f \in DOMAIN dir.data : \E i \in 1..Len(dir.data[f]) :
         /\ dir.data[f][i].rec.rec_type = "Deleted"
         /\ parse_record_sequence_number_with_key(dir.data[f][i].rec.key) =
                [seq |-> sequence_number - 1, key |-> k]

\* C4: after a clean close, reopening the same directory succeeds and get
\* answers for every key as it did before the close.
C4_ReopenAfterClose ==
    [][(status = "closed" /\ status' # "closed") => (status' = "open" /\ GetIsMap')]_vars

\* C3: a commit that stopped before its TxnFinished record was written leaves
\* none of the batch visible after reopen; one that stopped after it leaves all
\* of the batch visible after reopen.
C3_CommitAllOrNothing ==
    [][(/\ status = "crashed" /\ status' # "crashed"
        /\ last.res \in {"StoppedBeforeFinished", "StoppedAfterFinished"})
        => (status' = "open" /\ GetIsMap')]_vars

\* C3, the half that holds: a commit stopped before its TxnFinished record
C3_NothingBeforeFinished ==
    [][(status = "crashed" /\ status' # "crashed" /\ last.res = "StoppedBeforeFinished")
        => (status' = "open" /\ GetIsMap')]_vars

\* C5: after a write that stopped part-way through its record, open succeeds
\* and every key written completely before still returns its value.
C5_TornTailIgnored ==
    [][(status = "crashed" /\ status' # "crashed" /\ last.res = "TornWrite")
        => (status' = "open" /\ GetIsMap')]_vars

\* C2: while a commit of a batch of two or more keys runs, a sequence of gets
\* on another thread never sees the batch's effect on one key and then the
\* state before the commit on another key of the same batch.
C2_NoPartialBatch ==
    ~(/\ local["R"].op = "gets"
      /\ local["R"].same_commit
      /\ local["R"].first = "post"
      /\ local["R"].second = "pre")

\* the keys with a record in a data file the finished merge did not cover:
\* their last write was appended after merge rotated the active file
WrittenAfterRotation ==
    {k \in Keys : \E f \in DOMAIN dir.data : \E i \in 1..Len(dir.data[f]) :
        /\ f >= parse_u32(read_log_record(merge_dir.merge_finished.frames, 0).record.value)
        /\ parse_record_sequence_number_with_key(dir.data[f][i].rec.key).key = k}

\* C7: a put or delete of k made after merge rotated the active file wins over
\* the merged copy of k: after close and reopen get(k) answers with that write.
C7_WriteAfterRotationWins ==
    [][(/\ status = "closed" /\ status' # "closed"
        /\ merge_dir.merge_finished.exists
        /\ WrittenAfterRotation # {})
        => (status' = "open" /\ \A k \in WrittenAfterRotation : Get(k)' = MapGet(kv, k))]_vars

\* C8: whatever the interleaving of a put or a commit with a merge, a value
\* that get(k) returned before a clean close is returned by get(k) after the
\* reopen, and the reopen succeeds.
C8_WriteBesideMergeIsDurable ==
    [][(status = "closed" /\ status' # "closed")
        => (status' = "open" /\ \A k \in Keys : Get(k).err = "Ok" => Get(k)' = Get(k))]_vars

\* C11: Engine.put, Engine.get, Engine.delete, WriteBatch.put and
\* WriteBatch.delete called with the empty key return KeyIsEmpty and change
\* neither the log, nor the index, nor the staged set, nor the sequence counter.
C11_EmptyKeyRejected ==
    [][(/\ calls' = calls + 1 /\ last'.key = <<>>
        /\ last'.op \in {"put", "get", "delete", "batch_put", "batch_delete"})
        => /\ last'.res = "KeyIsEmpty"
           /\ dir' = dir /\ active_file' = active_file /\ older_files' = older_files
           /\ index' = index /\ pending_writes' = pending_writes
           /\ sequence_number' = sequence_number]_vars

\* a call with the empty key was rejected by an engine that holds a key, a
\* staged entry and a committed batch
C11_Witness ==
    /\ last.res = "KeyIsEmpty" /\ last.key = <<>>
    /\ DOMAIN index # {} /\ DOMAIN pending_writes # {}
    /\ sequence_number - 1 > NON_TRANSACTION_SEQ_NUMBER

C13_OneMergeAtATime ==
    [][(calls' = calls + 1 /\ pc' = pc /\ last'.op = "merge_second")
        => IF pc["M"] = "merge_loop"
           THEN /\ last'.res = "MergeInProgress"
                /\ dir' = dir /\ active_file' = active_file /\ older_files' = older_files
                /\ merge_dir' = merge_dir
           ELSE last'.res # "MergeInProgress"]_vars

C13_Witness ==
    /\ last.op = "merge_second" /\ last.res = "MergeInProgress"
    /\ pc["M"] = "merge_loop"
    /\ local["M"].ms.cands # <<>>
    /\ merge_dir.exists

\* the frames of the data files in the order of the log: by file id, then by
\* offset
RECURSIVE LogUpTo(_, _)
LogUpTo(data, f) ==
    IF f < INITIAL_DATA_FILE_ID THEN <<>>
    ELSE LogUpTo(data, f - 1) \o (IF f \in DOMAIN data THEN data[f] ELSE <<>>)

RecordSeq(frame) == parse_record_sequence_number_with_key(frame.rec.key).seq
IsBatchFrame(frame) == RecordSeq(frame) # NON_TRANSACTION_SEQ_NUMBER
IsFinishedFrame(frame) == frame.rec.rec_type = "TxnFinished"
BatchLog == SelectSeq(LogUpTo(dir.data, active_file.file_id), IsBatchFrame)
FinishedLog == SelectSeq(BatchLog, IsFinishedFrame)

\* in the records L of batches the sequence numbers never go down, and they go
\* up after each TxnFinished record; the TxnFinished records F carry 1, 2, 3, ...
Serialized(L, F) ==
    /\ \A i \in 1..Len(L) - 1 :
         IF IsFinishedFrame(L[i]) THEN RecordSeq(L[i]) < RecordSeq(L[i + 1])
         ELSE RecordSeq(L[i]) <= RecordSeq(L[i + 1])
    /\ \A i \in 1..Len(F) : RecordSeq(F[i]) = i

\* C14: under every interleaving of two committing threads the records of a
\* batch are contiguous in the log and end with the batch's one TxnFinished
\* record, two commits never carry the same sequence number, and the
\* TxnFinished records appear with sequence numbers 1, 2, 3, ... in this order.
C14_CommitsSerialized ==
    /\ Serialized(BatchLog, FinishedLog)
    /\ (pc["W"] # "idle" /\ pc["R"] # "idle") => local["W"].seq # local["R"].seq

C14_Witness ==
    /\ last.op = "commit" /\ last.res = "Ok"
    /\ pc["R"] = "commit_apply"
    /\ Len(FinishedLog) >= 2
    /\ Cardinality(DOMAIN dir.data) > 1
    /\ \E i \in 1..Len(BatchLog) - 1 :
         /\ RecordSeq(BatchLog[i]) = RecordSeq(BatchLog[i + 1])
         /\ ~IsFinishedFrame(BatchLog[i + 1])

\* C15: across commits, merges, closes and reopens the counter from which
\* commits take their sequence number never goes down while the engine opens,
\* so that a commit gets a number above those of all earlier commits.
C15_SequenceNumbersGrow ==
    [][status' = "open" => sequence_number' >= sequence_number]_vars

\* C15, without a merge before the reopen: the counter found at the reopen is
\* the one the engine had at its close
C15_ReopenKeepsCounter ==
    [][(status = "closed" /\ status' = "open" /\ ~dir.hint.exists /\ ~merge_dir.exists)
        => sequence_number' = sequence_number]_vars

\* the keys of S that start with prefix; a sequence of keys in strictly
\* ascending, or strictly descending, byte order; a sequence that holds each
\* key of S once and nothing else
PrefixKeys(S, prefix) == {k \in S : starts_with(k, prefix)}
Ascending(out) == \A i, j \in 1..Len(out) : i < j => cmp(out[i], out[j]) < 0
Descending(out) == \A i, j \in 1..Len(out) : i < j => cmp(out[i], out[j]) > 0
EmitsExactly(out, S) == Len(out) = Cardinality(S) /\ {out[i] : i \in 1..Len(out)} = S

\* the iterator was read by next from its start, with no seek, until None
Drained ==
    /\ HasIter
    /\ local["R"].fresh /\ local["R"].lastop = "next" /\ ~local["R"].ret.some

\* C16: an iterator with a non-empty prefix emits, after a seek or without
\* one, only keys that start with the prefix; drained from its start it has
\* emitted each key of the index that starts with the prefix once, in
\* ascending order when reverse is false.
C16_PrefixHonoured ==
    (HasIter /\ local["R"].it.options.prefix # <<>>)
      => /\ (local["R"].lastop = "next" /\ local["R"].ret.some)
              => starts_with(local["R"].ret.key, local["R"].it.options.prefix)
         /\ Drained
              => /\ EmitsExactly(local["R"].out,
                                 PrefixKeys(local["R"].keys, local["R"].it.options.prefix))
                 /\ ~local["R"].it.options.reverse => Ascending(local["R"].out)

C16_Witness ==
    /\ Drained
    /\ local["R"].it.options.prefix = <<97, 97>>
    /\ ~local["R"].it.options.reverse
    /\ Len(local["R"].out) = 1
    /\ Cardinality(local["R"].keys) = 3

\* C17: an iterator with the empty prefix, drained by next from its start,
\* has emitted each key the index held at its creation once, in ascending byte
\* order, or in descending order when reverse is true; the next call of next
\* returns None again.
C17_DrainInOrder ==
    (Drained /\ local["R"].it.options.prefix = <<>>)
      => /\ EmitsExactly(local["R"].out, local["R"].keys)
         /\ IF local["R"].it.options.reverse THEN Descending(local["R"].out)
            ELSE Ascending(local["R"].out)
         /\ ~BTreeIterator_next(local["R"].it).some

C17_Witness ==
    /\ Drained /\ local["R"].it.options.prefix = <<>>
    /\ local["R"].it.options.reverse
    /\ Len(local["R"].out) = 2
    /\ DOMAIN index # local["R"].keys

\* the keys of S with the prefix that lie at k or after it in the direction
\* of the iterator
SeekTargets(S, k, reverse, prefix) ==
    {x \in PrefixKeys(S, prefix) : IF reverse THEN cmp(x, k) <= 0 ELSE cmp(x, k) >= 0}

\* the first of them in the direction of the iterator
FirstTarget(T, reverse) ==
    CHOOSE x \in T : \A y \in T : IF reverse THEN cmp(x, y) >= 0 ELSE cmp(x, y) <= 0

\* C18: the next that follows seek(k) returns the smallest key >= k of the
\* snapshot that has the prefix, or with reverse the greatest key <= k that has
\* the prefix, and None when there is no such key.
C18_SeekThenNext ==
    (HasIter /\ local["R"].lastop = "next" /\ local["R"].after_seek.some)
      => IF SeekTargets(local["R"].keys, local["R"].after_seek.key,
                        local["R"].it.options.reverse, local["R"].it.options.prefix) = {}
         THEN ~local["R"].ret.some
         ELSE /\ local["R"].ret.some
              /\ local["R"].ret.key =
                    FirstTarget(SeekTargets(local["R"].keys, local["R"].after_seek.key,
                                            local["R"].it.options.reverse,
                                            local["R"].it.options.prefix),
                                local["R"].it.options.reverse)

C18_Witness ==
    /\ HasIter /\ local["R"].lastop = "next" /\ local["R"].after_seek.some
    /\ local["R"].after_seek.key \notin local["R"].keys
    /\ local["R"].it.options.reverse
    /\ local["R"].it.options.prefix # <<>>
    /\ local["R"].ret.some
    /\ \E x \in local["R"].keys :
         /\ cmp(x, local["R"].after_seek.key) <= 0
         /\ cmp(local["R"].ret.key, x) < 0

\* C19: a commit of a batch that holds more than max_batch_size entries
\* returns BatchSizeExceeded, appends no record, leaves the sequence counter
\* and the index as they are and keeps the staged entries.
C19_BatchSizeExceeded ==
    [][(/\ calls' = calls + 1 /\ last'.op = "commit"
        /\ Cardinality(DOMAIN pending_writes) > MaxBatchSize)
        => /\ last'.res = "BatchSizeExceeded"
           /\ dir' = dir /\ active_file' = active_file /\ older_files' = older_files
           /\ sequence_number' = sequence_number
           /\ index' = index
           /\ pending_writes' = pending_writes]_vars

C19_Witness ==
    /\ last.op = "commit" /\ last.res = "BatchSizeExceeded"
    /\ Cardinality(DOMAIN pending_writes) > MaxBatchSize
    /\ DOMAIN index # {}
    /\ sequence_number > 1

\* C20: a commit of a batch with no staged entry returns Ok, appends no
\* record, leaves the index as it is and does not advance the sequence counter.
C20_EmptyCommit ==
    [][(calls' = calls + 1 /\ last'.op = "commit" /\ DOMAIN pending_writes = {})
        => /\ last'.res = "Ok"
           /\ dir' = dir /\ active_file' = active_file /\ older_files' = older_files
           /\ index' = index
           /\ sequence_number' = sequence_number]_vars

C20_Witness ==
    /\ last.op = "commit" /\ last.res = "Ok"
    /\ sequence_number = 1
    /\ DOMAIN index # {}
    /\ DOMAIN pending_writes = {}

\* the greatest file id of a set of data files
MaxFileId(data) == CHOOSE f \in DOMAIN data : \A g \in DOMAIN data : g <= f

\* the frames L of the merged data files hold one Normal record with sequence
\* number 0 for each key of K, with the value get returns for it
MergedRecords(L, K) ==
    /\ Len(L) = Cardinality(K)
    /\ \A i \in 1..Len(L) :
         /\ L[i].rec.rec_type = "Normal"
         /\ RecordSeq(L[i]) = NON_TRANSACTION_SEQ_NUMBER
         /\ parse_record_sequence_number_with_key(L[i].rec.key).key \in K
         /\ L[i].rec.value = Get(parse_record_sequence_number_with_key(L[i].rec.key).key).value
    /\ \A i, j \in 1..Len(L) : i # j => L[i].rec.key # L[j].rec.key

\* the frames H of the hint file hold one record for each key of K, whose value
\* decodes to the position of that key's record in the merged data files
HintRecords(H, data, K) ==
    /\ Len(H) = Cardinality(K)
    /\ {H[i].rec.key : i \in 1..Len(H)} = K
    /\ \A i \in 1..Len(H) :
         /\ decode_log_record_pos(H[i].rec.value).file_id \in DOMAIN data
         /\ read_log_record(data[decode_log_record_pos(H[i].rec.value).file_id],
                            decode_log_record_pos(H[i].rec.value).offset).err = "Ok"
         /\ read_log_record(data[decode_log_record_pos(H[i].rec.value).file_id],
                            decode_log_record_pos(H[i].rec.value).offset).record.key
              = get_record_sequence_number_with_key(H[i].rec.key, NON_TRANSACTION_SEQ_NUMBER)

\* a merge with no other thread running has just returned Ok
Merged == status = "open" /\ last.op = "merge" /\ last.res = "Ok"

C22_FilesBounded ==
    /\ [](\A f \in DOMAIN dir.data : FileSize(dir.data[f]) <= DataFileSize)
    /\ [][(status = "open" /\ status' = "open" /\ last'.op # "open"
           /\ active_file'.file_id # active_file.file_id)
          => /\ active_file'.file_id > active_file.file_id
             /\ older_files' = older_files
                                 \cup (active_file.file_id .. (active_file'.file_id - 1))
             /\ (active_file.file_id .. active_file'.file_id) \subseteq DOMAIN dir'.data]_vars

C22_Witness ==
    /\ status = "open"
    /\ active_file.file_id >= 3
    /\ last.op = "commit" /\ last.res = "Ok"
    /\ merge_dir.exists
    /\ \E f \in DOMAIN dir.data : FileSize(dir.data[f]) = DataFileSize - 2
    /\ \E k \in Keys : HasRecord(k, "Deleted")

\* the index Engine::open rebuilds from the directory as it is now
RebuiltIndex == Engine_open(Unlocked(dir), merge_dir)

\* C23: in every state where no put, delete or commit is in progress the index
\* is the one a reopen rebuilds from the log, which maps each key to its last
\* record in log order and drops the keys whose last record is a tombstone.
C23_IndexIsLastRecord ==
    (status = "open" /\ Idle)
      => /\ RebuiltIndex.status = "open"
         /\ RebuiltIndex.index = index

\* C24: while the engine is open the write offset of its active file is the
\* size of that file on disk: when open returns and after every append and
\* rotation.
C24_WriteOffsetIsFileSize ==
    status = "open" => active_file.write_offset = FileSize(dir.data[active_file.file_id])

\* read_log_record at pos yields the record rec
ReadsBack(pos, rec) ==
    /\ pos.file_id \in DOMAIN dir.data
    /\ read_log_record(dir.data[pos.file_id], pos.offset).err = "Ok"
    /\ read_log_record(dir.data[pos.file_id], pos.offset).record = rec

\* the positions append_log_record has returned to the call in progress of
\* thread t
HeldPositions(t) ==
    IF pc[t] = "put_index" THEN {local[t].pos}
    ELSE IF pc[t] \in {"commit_append", "commit_apply"}
         THEN {local[t].positions[k] : k \in DOMAIN local[t].positions}
    ELSE {}

\* C25: under every interleaving of the calls that append, each position that
\* append_log_record returned reads back the record of its caller, and no two
\* callers hold the same position.
C25_PositionsReadBack ==
    /\ pc["W"] = "put_index"
         => ReadsBack(local["W"].pos,
                      LogRecord(get_record_sequence_number_with_key(local["W"].key,
                                                                    NON_TRANSACTION_SEQ_NUMBER),
                                local["W"].value, "Normal"))
    /\ pc["R"] \in {"commit_append", "commit_apply"}
         => \A k \in DOMAIN local["R"].positions :
              ReadsBack(local["R"].positions[k],
                        commit_record(local["R"].batch, k, local["R"].seq))
    /\ HeldPositions("W") \cap HeldPositions("R") = {}
    /\ \A t \in {"W", "R"} :
         pc[t] \in {"commit_append", "commit_apply"}
           => Cardinality(HeldPositions(t)) = Cardinality(DOMAIN local[t].positions)

C25_Witness ==
    /\ pc["W"] = "put_index"
    /\ pc["R"] = "commit_apply"
    /\ pc["M"] = "merge_loop"
    /\ Cardinality(HeldPositions("R")) = 2
    /\ local["W"].pos.file_id = active_file.file_id
    /\ \E p \in HeldPositions("R") : p.file_id < local["W"].pos.file_id

\* the record the index entry of key k points at, read the way get reads it
EntryRecord(k) == read_log_record(dir.data[index[k].file_id], index[k].offset)

\* C26: while the engine is open every index entry refers to the active file or
\* to a file of older_files, the record at its offset is a Normal record whose
\* key without the sequence prefix is the entry's key, and so get of an
\* indexed key returns a value.
C26_IndexEntriesValid ==
    status = "open"
      => \A k \in DOMAIN index :
           /\ index[k].file_id \in {active_file.file_id} \cup older_files
           /\ index[k].file_id \in DOMAIN dir.data
           /\ EntryRecord(k).err = "Ok"
           /\ EntryRecord(k).record.rec_type = "Normal"
           /\ parse_record_sequence_number_with_key(EntryRecord(k).record.key).key = k
           /\ Get(k).err = "Ok"

\* after a rotation, a merge and a reopen that promoted the merge output, one
\* entry points into the active file and another into an older file
C26_Witness ==
    /\ status = "open"
    /\ last.op = "open" /\ last.res = "open"
    /\ dir.hint.exists
    /\ DOMAIN index = Keys
    /\ \E k \in Keys : index[k].file_id = active_file.file_id
    /\ \E k \in Keys : index[k].file_id \in older_files

\* some data file holds the record rec
InLog(rec) ==
    \E f \in DOMAIN dir.data : \E i \in 1..Len(dir.data[f]) : dir.data[f][i] = Frame(rec)

\* every record of the batch thread W commits is in the log at the position
\* the commit holds for it, and so is the batch's TxnFinished record
BatchAppended ==
    /\ DOMAIN local["W"].positions = DOMAIN pending_writes
    /\ \A k \in DOMAIN pending_writes :
         ReadsBack(local["W"].positions[k],
                   commit_record(pending_writes, k, local["W"].seq))
    /\ InLog(finished_record(local["W"].seq))

CommitInProgress == pc["W"] \in {"commit_append", "commit_sync", "commit_apply"}

\* C27: a commit changes the index only in its index loop, and when it is in
\* that loop all records of the batch and its TxnFinished record are in the
\* log and, for a batch made with sync_write, Engine::sync has been called.
C27_IndexAfterAppendAndSync ==
    /\ [](pc["W"] = "commit_apply"
            => /\ BatchAppended
               /\ local["W"].sync_write => local["W"].synced)
    /\ [][(CommitInProgress /\ index' # index) => pc["W"] = "commit_apply"]_vars

\* a batch of a put and a delete, made with sync_write, of which the index
\* loop has applied the first entry
C27_Witness ==
    /\ pc["W"] = "commit_apply"
    /\ local["W"].sync_write /\ local["W"].synced
    /\ Cardinality(DOMAIN pending_writes) = 2
    /\ \E k \in DOMAIN pending_writes : pending_writes[k].rec_type = "Deleted"
    /\ \E k \in DOMAIN pending_writes : pending_writes[k].rec_type = "Normal"
    /\ Len(local["W"].todo) = 1

AppendErrors == {"SyncFileError", "WriteToDataFileError"}

\* the last call was a commit that returned the error of an append
FailedCommit == status = "open" /\ last.op = "commit" /\ last.res \in AppendErrors

\* the index a reopen rebuilds holds no record of the batch with sequence
\* number seq
NotApplied(e, seq) ==
    e.status = "open"
      => \A k \in DOMAIN e.index :
           parse_record_sequence_number_with_key(
               read_log_record(e.dir.data[e.index[k].file_id],
                               e.index[k].offset).record.key).seq # seq

\* C28: a commit that returns the error of an append leaves the index and the
\* staged entries as they were, and a reopen of the directory it leaves
\* applies none of the records of its batch to the index.
C28_FailedCommitNotApplied ==
    /\ [](FailedCommit => NotApplied(RebuiltIndex, sequence_number - 1))
    /\ [][(calls' = calls + 1 /\ FailedCommit')
            => index' = index /\ pending_writes' = pending_writes]_vars

\* the key -> value map that get returns
CurrentMap == [k \in {x \in Keys : Get(x).err = "Ok"} |-> Get(k).value]

\* a sequence of batch calls applied one by one to a key -> value map
RECURSIVE ApplyCalls(_, _)
ApplyCalls(map, cs) ==
    IF cs = <<>> THEN map
    ELSE ApplyCalls(IF Head(cs).op = "put"
                    THEN Indexer_put(map, Head(cs).key, Head(cs).value)
                    ELSE Indexer_delete(map, Head(cs).key),
                    Tail(cs))

\* the number of records in the data files
RECURSIVE RecordCount(_, _)
RecordCount(data, files) ==
    IF files = {} THEN 0
    ELSE LET f == CHOOSE x \in files : TRUE
         IN Len(data[f]) + RecordCount(data, files \ {f})

\* this step is a commit that returns Ok
CommittedOk == calls' = calls + 1 /\ last'.op = "commit" /\ last'.res = "Ok"

\* the commit of this step leaves the map obtained by applying the calls of
\* the batch in order to the map before the commit, and writes at most one
\* record per staged key and one TxnFinished record
CommitIsCallsInOrder ==
    /\ CurrentMap' = ApplyCalls(CurrentMap, BatchCalls)
    /\ RecordCount(dir'.data, DOMAIN dir'.data) - RecordCount(dir.data, DOMAIN dir.data)
         <= Cardinality(DOMAIN pending_writes) + 1
    /\ DOMAIN pending_writes \subseteq {BatchCalls[i].key : i \in DOMAIN BatchCalls}

Undisturbed == calls = BatchStart + Len(BatchCalls)

PromotingOpen ==
    /\ calls' = calls + 1 /\ last'.op = "open" /\ status' = "open"
    /\ merge_dir.exists /\ merge_dir.merge_finished.exists

non_merge_file_id ==
    parse_u32(read_log_record(merge_dir.merge_finished.frames, 0).record.value)

\* the data files below non_merge_file_id are gone or replaced by merged
\* files, the merged data files and the hint file are in the data directory,
\* and the merge directory is gone
MergeOutputMoved ==
    /\ \A f \in DOMAIN dir.data :
         f < non_merge_file_id
           => \/ f \notin DOMAIN dir'.data
              \/ f \in DOMAIN merge_dir.data /\ dir'.data[f] = merge_dir.data[f]
    /\ \A f \in DOMAIN merge_dir.data :
         f \in DOMAIN dir'.data /\ dir'.data[f] = merge_dir.data[f]
    /\ merge_dir.hint.exists => dir'.hint = merge_dir.hint
    /\ ~merge_dir'.exists

\* C30: an open that finds a merge directory with the merge-finished file
\* deletes the data files below non_merge_file_id, leaves every file of the
\* merge directory, the merge-finished file included, in the data directory,
\* and removes the merge directory.
C30_MergePromoted ==
    [][PromotingOpen
         => /\ MergeOutputMoved
            /\ dir'.merge_finished = merge_dir.merge_finished]_vars

\* ------------------------------------------------- promotion that stops

\* load_merge_files stopped after it deleted the data files below n and renamed
\* the merged data files `moved`, the hint file when hint, and the file-lock
\* when lock: what the two directories hold then
load_merge_files_stopped(d, m, n, moved, hint, lock) ==
    [dir |-> [d EXCEPT
         !.data = [f \in {g \in DOMAIN d.data : g >= n} \cup moved |->
                     IF f \in moved THEN m.data[f] ELSE d.data[f]],
         !.hint = IF hint THEN m.hint ELSE d.hint,
         !.file_lock = IF lock THEN m.file_lock ELSE d.file_lock],
     merge_dir |-> [m EXCEPT
         !.data = [f \in DOMAIN m.data \ moved |-> m.data[f]],
         !.hint = IF hint THEN NoFile ELSE m.hint,
         !.file_lock = IF lock THEN NoLock ELSE m.file_lock]]

\* the process stops inside the load_merge_files of Engine::open, in the loop
\* of deletions or in the loop of renames, whose order is that of read_dir
OpenCrash(n, moved, hint, lock) ==
    /\ status \in {"closed", "crashed"} /\ calls < MaxCalls
    /\ ~dir.file_lock.locked
    /\ merge_dir.exists /\ merge_dir.merge_finished.exists
    /\ n <= non_merge_file_id
    /\ moved \subseteq DOMAIN merge_dir.data
    /\ hint => merge_dir.hint.exists
    /\ lock => merge_dir.file_lock.exists
    /\ (moved # {} \/ hint \/ lock) => n = non_merge_file_id
    /\ LET r == load_merge_files_stopped(dir, merge_dir, n, moved, hint, lock)
       IN /\ dir' = Unlocked(r.dir)
          /\ merge_dir' = r.merge_dir
    /\ status' = "crashed"
    /\ UNCHANGED engine
    /\ Called("open", <<>>, "StoppedInPromotion")
    /\ UNCHANGED <<active_file, older_files, index, sequence_number, pending_writes,
                   pc, local, kv>>

\* one thread that puts, merges and closes, and opens that can stop while
\* they promote the merge
NextPromote ==
    \/ \E k \in Keys, v \in Values : Put(k, v)
    \/ Merge
    \/ Close
    \/ \E n \in 0..MaxMerged, moved \in SUBSET (0..MaxMerged), hint, lock \in BOOLEAN :
         OpenCrash(n, moved, hint, lock)
    \/ Open

SpecPromote == Init /\ [][NextPromote]_vars

\* this step is the open that follows an open stopped in the promotion
OpenAfterStop ==
    /\ last.res = "StoppedInPromotion" /\ calls' = calls + 1
    /\ last'.op = "open" /\ last'.res # "StoppedInPromotion"

\* C31: the open that follows an open stopped anywhere in the deletions and
\* renames of load_merge_files returns an engine in which get returns for every
\* key the value it had before the merge.
C31_PromotionAtomic ==
    [][OpenAfterStop => status' = "open" /\ GetIsMap']_vars

\* ------------------------------------------------------ merge that stops

\* the process stops inside Engine::merge before the merge-finished record is
\* written: in the record loop, or after it, and then with or without the
\* merge-finished file that DataFile::new_merge_finished_file has created
MergeStop(created) ==
    /\ pc["M"] = "merge_loop" /\ pc["W"] = "idle"
    /\ created => local["M"].ms.cands = <<>> /\ local["M"].ms.err = "Ok"
    /\ merge_dir' = Unlocked([merge_dir EXCEPT
                                 !.merge_finished = IF created THEN File(<<>>) ELSE NoFile])
    /\ dir' = Unlocked(dir)
    /\ status' = "crashed"
    /\ UNCHANGED engine
    /\ pc' = [t \in Threads |-> "idle"]
    /\ local' = [t \in Threads |-> NoLocal]
    /\ Called("merge", <<>>, "Stopped")
    /\ UNCHANGED <<active_file, older_files, index, sequence_number, pending_writes, kv>>

\* a thread that puts and deletes, a merge that can stop, and the open after it
NextStop ==
    \/ \E k \in Keys, v \in Values : PutAppend(k, v)
    \/ PutIndex
    \/ \E k \in Keys : DeleteAppend(k)
    \/ DeleteIndex
    \/ MergeRotate
    \/ MergeRecord
    \/ \E created \in BOOLEAN : MergeStop(created)
    \/ Open

SpecStop == Init /\ [][NextStop]_vars

\* this step is the open that follows a stopped merge
OpenAfterMergeStop ==
    /\ last.op = "merge" /\ last.res = "Stopped"
    /\ calls' = calls + 1 /\ last'.op = "open"

\* C32: the open that follows a merge stopped before its merge-finished record
\* was written returns an engine, removes the merge directory, leaves every
\* data file of the data directory as it was, and get returns for every key
\* the value it had.
C32_StoppedMergeDiscarded ==
    [][OpenAfterMergeStop
         => /\ status' = "open"
            /\ ~merge_dir'.exists
            /\ dir'.data = dir.data
            /\ GetIsMap']_vars

\* this step is the rotation of a merge
MergeRotated == pc["M"] = "idle" /\ pc'["M"] = "merge_loop"

\* this step is the return of a merge that wrote its merge-finished file
MergeFinished == pc["M"] = "merge_loop" /\ pc'["M"] = "idle" /\ last'.res = "Ok"

LargestFileId(data) == CHOOSE f \in DOMAIN data : \A g \in DOMAIN data : g <= f

\* the file the rotation made active is the one after the last file to merge
RotationActiveFile ==
    /\ active_file'.file_id = local'["M"].merge_files[Len(local'["M"].merge_files)] + 1
    /\ active_file'.file_id = LargestFileId(dir'.data)
    /\ \A i \in 1..Len(local'["M"].merge_files) :
         local'["M"].merge_files[i] < active_file'.file_id

\* the id in the merge-finished file is the id of the file the rotation made
\* active, and every data file of the merge directory has a smaller id
MergedBelowNonMerge ==
    /\ non_merge_file_id' = local["M"].merge_files[Len(local["M"].merge_files)] + 1
    /\ non_merge_file_id' \in DOMAIN dir'.data
    /\ non_merge_file_id' <= active_file'.file_id
    /\ \A f \in DOMAIN merge_dir'.data : f < non_merge_file_id'

\* the promotion leaves every data file from non_merge_file_id on as it was,
\* and the active file after it is the file with the largest id
UnmergedKept ==
    /\ \A f \in DOMAIN dir.data :
         f >= non_merge_file_id
           => f \notin DOMAIN merge_dir.data /\ f \in DOMAIN dir'.data
              /\ dir'.data[f] = dir.data[f]
    /\ active_file'.file_id = LargestFileId(dir'.data)
    /\ active_file'.file_id >= non_merge_file_id

C34_FinishedHasGroup == status # "Panic"

\* ------------------------------------------- engines with a BPlusTree index

\* the number of entries read_dir finds in the directory d
dir_entries(d) ==
    Cardinality(DOMAIN d.data)
      + (IF d.hint.exists THEN 1 ELSE 0) + (IF d.merge_finished.exists THEN 1 ELSE 0)
      + (IF d.sequence_number_file.exists THEN 1 ELSE 0)
      + (IF d.file_lock.exists THEN 1 ELSE 0) + (IF d.bptree_index.exists THEN 1 ELSE 0)

\* Engine::open up to load_merge_files: whether the open sets is_first_load
is_first_load(d0) == ~d0.exists \/ dir_entries(Locked(d0)) = 0

\* Engine::load_sequence_number_from_file
load_sequence_number_from_file(d) ==
    IF ~d.sequence_number_file.exists \/ read_log_record(d.sequence_number_file.frames, 0).err # "Ok"
    THEN [exists |-> FALSE, seq_number |-> 0, dir |-> d]
    ELSE [exists |-> TRUE,
          seq_number |-> parse_u32(read_log_record(d.sequence_number_file.frames, 0).record.value),
          dir |-> [d EXCEPT !.sequence_number_file = NoFile]]

\* Engine::open with a BPlusTree index, after load_merge_files gave the
\* directory d: the index is the bptree-index file, no hint file is loaded and
\* no data file scanned
Engine_new_bptree(d, m, file_ids, first, sq) ==
    [status |-> "open",
     dir |-> [sq.dir EXCEPT !.exists = TRUE,
                            !.bptree_index = [exists |-> TRUE, tree |-> d.bptree_index.tree]],
     merge_dir |-> m,
     active_file |-> [file_id |-> file_ids[Len(file_ids)],
                      write_offset |-> FileSize(d.data[file_ids[Len(file_ids)]])],
     older_files |-> {file_ids[i] : i \in 1..(Len(file_ids) - 1)},
     index |-> d.bptree_index.tree,
     sequence_number |-> sq.seq_number,
     engine |-> [index_type |-> "BPlusTree", is_first_load |-> first,
                 sequence_number_file_exists |-> sq.exists]]

Engine_open_bptree(d0, m0) ==
    IF d0.file_lock.locked \/ load_merge_files(Locked(d0), m0).err # "Ok"
    THEN [status |-> IF d0.file_lock.locked THEN "DatabaseIsUsing"
                     ELSE load_merge_files(Locked(d0), m0).err,
          dir |-> d0, merge_dir |-> m0,
          active_file |-> [file_id |-> INITIAL_DATA_FILE_ID, write_offset |-> 0],
          older_files |-> {}, index |-> EmptyMap, sequence_number |-> 0,
          engine |-> [index_type |-> "BPlusTree", is_first_load |-> is_first_load(d0),
                      sequence_number_file_exists |-> FALSE]]
    ELSE LET lm == load_merge_files(Locked(d0), m0)
             d == IF DOMAIN lm.dir.data = {}
                  THEN [lm.dir EXCEPT !.data = (INITIAL_DATA_FILE_ID :> <<>>)] ELSE lm.dir
         IN Engine_new_bptree(d, lm.merge_dir, load_data_files(DOMAIN d.data),
                              is_first_load(d0), load_sequence_number_from_file(d))

\* Engine::new_write_batch
new_write_batch(e) ==
    IF e.index_type = "BPlusTree" /\ ~e.sequence_number_file_exists /\ ~e.is_first_load
    THEN "UnableToUseWriteBatch" ELSE "Ok"

\* Engine::open with index_type BPlusTree
OpenBPlusTree ==
    /\ status = "closed" /\ calls < MaxCalls
    /\ LET e == Engine_open_bptree(dir, merge_dir)
       IN /\ dir' = e.dir
          /\ merge_dir' = e.merge_dir
          /\ status' = e.status
          /\ engine' = e.engine
          /\ active_file' = e.active_file
          /\ older_files' = e.older_files
          /\ index' = e.index
          /\ sequence_number' = e.sequence_number
          /\ Called("open", <<>>, e.status)
    /\ UNCHANGED <<pending_writes, pc, local, kv>>

\* Engine::close of an engine with a BPlusTree index: the sequence-number
\* file is written, and the bptree-index file holds the index
CloseBPlusTree ==
    /\ CanCall
    /\ status' = "closed"
    /\ dir' = Unlocked([dir EXCEPT !.sequence_number_file = sequence_number_record(sequence_number),
                                   !.bptree_index.tree = index])
    /\ pending_writes' = EmptyMap
    /\ Called("close", <<>>, "Ok")
    /\ UNCHANGED <<merge_dir, engine, active_file, older_files, index, sequence_number,
                   pc, local, kv>>

\* Engine::new_write_batch, called for its result
NewWriteBatch ==
    /\ CanCall
    /\ pending_writes' = EmptyMap
    /\ Called("new_write_batch", <<>>, new_write_batch(engine))
    /\ UNCHANGED <<dir, merge_dir, status, engine, active_file, older_files, index,
                   sequence_number, pc, local, kv>>

\* a directory that is missing, or there and empty, before the first open of
\* an engine with a BPlusTree index
InitBPlusTree ==
    /\ dir \in {NoDir, EmptyDir}
    /\ merge_dir = NoDir
    /\ status = "closed"
    /\ engine = [index_type |-> "BPlusTree", is_first_load |-> FALSE,
                 sequence_number_file_exists |-> FALSE]
    /\ active_file = [file_id |-> INITIAL_DATA_FILE_ID, write_offset |-> 0]
    /\ older_files = {}
    /\ index = EmptyMap
    /\ sequence_number = 0
    /\ pending_writes = EmptyMap
    /\ pc = [t \in Threads |-> "idle"]
    /\ local = [t \in Threads |-> NoLocal]
    /\ kv = EmptyMap
    /\ last = [op |-> "none", key |-> <<>>, res |-> "Ok"]
    /\ calls = 0

NextBPlusTree ==
    \/ OpenBPlusTree
    \/ \E k \in Keys, v \in Values : Put(k, v)
    \/ \E k \in Keys : Delete(k)
    \/ NewWriteBatch
    \/ \E k \in Keys, v \in Values : new_write_batch(engine) = "Ok" /\ BatchPut(k, v)
    \/ \E k \in Keys : new_write_batch(engine) = "Ok" /\ BatchDelete(k)
    \/ new_write_batch(engine) = "Ok" /\ Commit
    \/ Merge
    \/ CloseBPlusTree

SpecBPlusTree == InitBPlusTree /\ [][NextBPlusTree]_vars

\* the frames this step has appended to the data file f
AppendedFrames(f) ==
    IF f \in DOMAIN dir.data
    THEN SubSeq(dir'.data[f], Len(dir.data[f]) + 1, Len(dir'.data[f]))
    ELSE dir'.data[f]

\* this step is a commit that wrote records
CommitWrote ==
    /\ calls' = calls + 1 /\ last'.op = "commit" /\ status = "open" /\ status' = "open"
    /\ dir'.data # dir.data

FrameSeq(frame) == parse_record_sequence_number_with_key(frame.rec.key).seq

\* C35: every record a commit writes, its TxnFinished record included,
\* carries a sequence number above 0, on an engine with a BPlusTree index too,
\* on a directory the open created as on one it found.
C35_CommitSeqPositive ==
    [][CommitWrote
         => \A f \in DOMAIN dir'.data : \A i \in 1..Len(AppendedFrames(f)) :
              FrameSeq(AppendedFrames(f)[i]) > NON_TRANSACTION_SEQ_NUMBER]_vars

\* this step is an open with a BPlusTree index of a directory that is
\* missing or empty
FirstOpen ==
    /\ calls' = calls + 1 /\ last'.op = "open" /\ status' = "open"
    /\ engine'.index_type = "BPlusTree"
    /\ ~dir.exists \/ dir_entries(dir) = 0

\* C36: an open that creates the directory, or finds it empty, sets
\* is_first_load, so that new_write_batch succeeds with a BPlusTree index.
C36_EmptyDirIsFirstLoad ==
    [][FirstOpen => engine'.is_first_load /\ new_write_batch(engine') = "Ok"]_vars

\* C37: with a BPlusTree index, the open that follows a merge and a close
\* returns an engine whose get gives every key the value it had at the close.
C37_BPlusTreeKeptByMerge ==
    [][(PromotingOpen /\ last.op = "close" /\ engine'.index_type = "BPlusTree")
         => GetIsMap']_vars

\* puts, deletes and commits, with the rotations they cause, beside an
\* iterator over all keys
NextSnapshot ==
    \/ \E k \in Keys, v \in Values : calls < MaxIterCalls /\ Put(k, v)
    \/ \E k \in Keys : calls < MaxIterCalls /\ Delete(k)
    \/ \E k \in Keys, v \in Values : calls < MaxIterCalls /\ BatchPut(k, v)
    \/ \E k \in Keys : calls < MaxIterCalls /\ BatchDelete(k)
    \/ calls < MaxIterCalls /\ Commit
    \/ \E reverse \in BOOLEAN : IterNew(reverse, <<>>)
    \/ IterNext

SpecSnapshot == Init /\ [][NextSnapshot]_vars

\* the last call on the iterator was a next that returned an item
Emitted == HasIter /\ local["R"].lastop = "next" /\ local["R"].ret.some

\* C38: every item next returns has a key the index held when Engine::iter
\* was called and the value get returned for that key then, whatever was
\* put, deleted or committed since, and whichever files were rotated.
C38_IteratorIsSnapshot ==
    Emitted => /\ local["R"].ret.key \in local["R"].keys
               /\ local["R"].ret.value = local["R"].values[local["R"].ret.key]

\* next returned a key with the value it had when the iterator was made,
\* from a file that was rotated since, after the key was put again or deleted
C38_Witness ==
    /\ Emitted
    /\ Get(local["R"].ret.key) # [err |-> "Ok", value |-> local["R"].ret.value]
    /\ active_file.file_id > 0
    /\ \E i \in 1..Len(local["R"].it.items) :
         /\ local["R"].it.items[i].key = local["R"].ret.key
         /\ local["R"].it.items[i].pos.file_id \in older_files

\* the offset at which frame i of a file starts
FrameOffset(frames, i) == FileSize(SubSeq(frames, 1, i - 1))

\* C39: at every offset of a data file at which a complete record starts, a
\* read through the MmapIO backend gives what a read through the
\* StandardFileIO backend gives, and at the end of the file both give
\* ReadDataFileEof.
C39_BackendsAgree ==
    \A f \in DOMAIN dir.data :
        /\ \A i \in 1..Len(dir.data[f]) :
             dir.data[f][i].len = encoded_length(dir.data[f][i].rec)
               => read_log_record_mmap(dir.data[f], FrameOffset(dir.data[f], i))
                    = read_log_record(dir.data[f], FrameOffset(dir.data[f], i))
        /\ read_log_record_mmap(dir.data[f], FileSize(dir.data[f])).err = "ReadDataFileEof"
        /\ read_log_record(dir.data[f], FileSize(dir.data[f])).err = "ReadDataFileEof"

\* -------------------------------------------------------------- the locks

\* The locks a call takes and releases, in the order of its code, as <<what,
\* lock>> with what in lock (Mutex::lock), try (try_lock), read, write
\* (RwLock) and unlock (the end of the guard). The locks of the side engine of
\* a merge and of the DataFile objects a call has made for itself are held
\* by that call alone and are left out, as is the lock of an iterator, which
\* next takes through &mut self.

\* BTree::get; BTree::put and BTree::delete
index_get_locks == << <<"read", "index">>, <<"unlock", "index">> >>
index_put_locks == << <<"write", "index">>, <<"unlock", "index">> >>

\* Engine::get_value_by_position
get_value_by_position_locks ==
    << <<"read", "active_file">>, <<"read", "older_files">>,
       <<"unlock", "older_files">>, <<"unlock", "active_file">> >>

\* Engine::append_log_record, with a rotation or without
append_log_record_locks(rotate) ==
    << <<"write", "active_file">> >>
      \o (IF rotate THEN << <<"write", "older_files">>, <<"unlock", "older_files">> >>
          ELSE << >>)
      \o << <<"unlock", "active_file">> >>

\* a rotation for a merge that keeps the guard of older_files it took for the
\* ids while it takes the active file
ratate_merge_files_locks_keeps_guard ==
    << <<"write", "older_files">>, <<"write", "active_file">>,
       <<"unlock", "active_file">>, <<"unlock", "older_files">> >>

\* Engine::ratate_merge_files
ratate_merge_files_locks ==
    << <<"write", "older_files">>, <<"unlock", "older_files">>,
       <<"write", "active_file">>, <<"write", "older_files">>,
       <<"unlock", "older_files">>, <<"unlock", "active_file">> >>

\* WriteBatch::commit of a batch that is not empty and not too large
WriteBatch_commit_locks(rotate, sync_write) ==
    << <<"lock", "pending_writes">>, <<"unlock", "pending_writes">>,
       <<"lock", "pending_writes">>, <<"unlock", "pending_writes">>,
       <<"lock", "batch_commit_mutex">>, <<"lock", "pending_writes">> >>
      \o append_log_record_locks(rotate) \o append_log_record_locks(rotate)
      \o (IF sync_write THEN << <<"read", "active_file">>, <<"unlock", "active_file">> >>
          ELSE << >>)
      \o index_put_locks
      \o << <<"unlock", "pending_writes">>, <<"unlock", "batch_commit_mutex">> >>

\* the calls of the engine, of its batch and of an iterator
CallLocks ==
    {index_get_locks, index_get_locks \o get_value_by_position_locks}
      \cup {append_log_record_locks(r) \o index_put_locks : r \in BOOLEAN}
      \cup {index_get_locks \o append_log_record_locks(r) \o index_put_locks : r \in BOOLEAN}
      \cup {<< <<"read", "active_file">>, <<"unlock", "active_file">> >>}
      \cup {get_value_by_position_locks}
      \cup {<< <<"lock", "pending_writes">>, <<"unlock", "pending_writes">> >>}
      \cup {<< <<"lock", "pending_writes">> >> \o index_get_locks
               \o << <<"unlock", "pending_writes">> >>}
      \cup {WriteBatch_commit_locks(r, r) : r \in BOOLEAN}
      \cup {<< <<"try", "merge_lock">> >> \o ratate_merge_files_locks \o index_get_locks
               \o << <<"unlock", "merge_lock">> >>}

Locking(t) == pc[t] = "locking"
Holds(t, l) == Locking(t) /\ \E m \in {"lock", "read", "write"} : <<l, m>> \in local[t].held
HoldsWrite(t, l) == Locking(t) /\ (<<l, "lock">> \in local[t].held \/ <<l, "write">> \in local[t].held)

\* whether the step op of a thread can be taken now
CanAcquire(op) ==
    CASE op[1] \in {"lock", "write"} -> \A u \in Threads : ~Holds(u, op[2])
      [] op[1] = "read" -> \A u \in Threads : ~HoldsWrite(u, op[2])
      [] OTHER -> TRUE

\* a thread starts a call
StartCall(t, todo) ==
    /\ status = "open" /\ pc[t] = "idle" /\ calls < MaxLockCalls
    /\ pc' = [pc EXCEPT ![t] = "locking"]
    /\ local' = [local EXCEPT ![t] = [op |-> "locks", todo |-> todo, held |-> {}]]
    /\ calls' = calls + 1
    /\ UNCHANGED <<dir, merge_dir, status, engine, active_file, older_files, index,
                   sequence_number, pending_writes, kv, last>>

\* a thread takes or releases the next lock of its call; a try_lock that finds
\* the lock taken makes the call return
LockStep(t) ==
    /\ Locking(t) /\ local[t].todo # << >>
    /\ CanAcquire(Head(local[t].todo))
    /\ LET op == Head(local[t].todo)
           taken == \E u \in Threads : Holds(u, op[2])
       IN local' = [local EXCEPT
              ![t].todo = IF op[1] = "try" /\ taken THEN << >> ELSE Tail(@),
              ![t].held = CASE op[1] = "unlock" -> {h \in @ : h[1] # op[2]}
                            [] op[1] = "try" -> IF taken THEN @ ELSE @ \cup {<<op[2], "lock">>}
                            [] OTHER -> @ \cup {<<op[2], op[1]>>}]
    /\ UNCHANGED <<dir, merge_dir, status, engine, active_file, older_files, index,
                   sequence_number, pending_writes, pc, kv, last, calls>>

\* the call of a thread returns
ReturnCall(t) ==
    /\ Locking(t) /\ local[t].todo = << >>
    /\ pc' = [pc EXCEPT ![t] = "idle"]
    /\ local' = [local EXCEPT ![t] = NoLocal]
    /\ UNCHANGED <<dir, merge_dir, status, engine, active_file, older_files, index,
                   sequence_number, pending_writes, kv, last, calls>>

NextLocks ==
    \/ \E t \in Threads, todo \in CallLocks : StartCall(t, todo)
    \/ \E t \in Threads : LockStep(t)
    \/ \E t \in Threads : ReturnCall(t)

\* MaxLockCalls calls on three threads; a thread whose lock stays free gets it
SpecLocks ==
    /\ Init /\ [][NextLocks]_vars
    /\ \A t \in Threads : WF_vars(LockStep(t)) /\ WF_vars(ReturnCall(t))

\* the order of the locks
LockRank(l) ==
    CASE l = "merge_lock" -> 1
      [] l = "batch_commit_mutex" -> 2
      [] l = "pending_writes" -> 3
      [] l = "active_file" -> 4
      [] l = "older_files" -> 5
      [] l = "index" -> 6

\* a thread waits for a lock: with the locks of parking_lot a reader also
\* waits while a writer does
Waits(t) ==
    /\ Locking(t) /\ local[t].todo # << >>
    /\ \/ ~CanAcquire(Head(local[t].todo))
       \/ /\ Head(local[t].todo)[1] = "read"
          /\ \E u \in Threads \ {t} :
               /\ Locking(u) /\ local[u].todo # << >>
               /\ Head(local[u].todo) = <<"write", Head(local[t].todo)[2]>>

\* some thread is in a call, and every thread that is in a call waits
Deadlock == (\E t \in Threads : Locking(t)) /\ \A t \in Threads : Locking(t) => Waits(t)

\* every lock a thread is about to take is later in the order than every lock
\* it holds, and a call that returns holds no lock
OneOrder ==
    \A t \in Threads :
        Locking(t) =>
          /\ local[t].todo = << >> => local[t].held = {}
          /\ (local[t].todo # << >> /\ Head(local[t].todo)[1] # "unlock")
               => \A h \in local[t].held : LockRank(h[1]) < LockRank(Head(local[t].todo)[2])

\* C40: no interleaving of get, put, delete, sync, iterator next, batch put,
\* batch delete, commit and merge on one engine reaches a state where every
\* running call waits for a lock; the locks are taken in one order; and every
\* call returns.
C40_NoDeadlock ==
    /\ [](~Deadlock /\ OneOrder)
    /\ \A t \in Threads : Locking(t) ~> pc[t] = "idle"

\* three calls run at once: a commit that rotates holds the commit mutex, the
\* staging lock, the active file and older_files, a second call waits for a
\* lock, and a merge holds the merge lock and waits for its rotation
C40_Witness ==
    \E t, u, w \in Threads :
        /\ Holds(t, "batch_commit_mutex") /\ Holds(t, "pending_writes")
        /\ Holds(t, "active_file") /\ Holds(t, "older_files")
        /\ u # w /\ Waits(u) /\ ~Holds(u, "merge_lock")
        /\ Holds(w, "merge_lock") /\ Waits(w)

====
